---- MODULE Spec2Model ----
(***************************************************************************)
(* Document Intelligence Agent (src/document_intelligence/                 *)
(* agent_intelligence.py): the keyword intent classifier, the action       *)
(* dispatcher with its handlers, the Bedrock call and process_query.       *)
(*                                                                         *)
(* Representation of Python values:                                        *)
(*   - text that is inspected character by character (queries, questions,  *)
(*     suggestions, document content) is a sequence of one-character       *)
(*     strings;                                                            *)
(*   - atomic strings (action names, reasoning, error messages, model      *)
(*     responses) are TLA+ strings, formatted with \o;                     *)
(*   - a dict is a record / function over its keys, {} is EmptyDict;       *)
(*   - an argument that need not be a str is tagged: Str(s), None,         *)
(*     UnhashableId (a non-empty list passed as document_id) or            *)
(*     DictDocument (a non-empty dict passed as document_content);         *)
(*   - a confidence is counted in tenths: 9 stands for 0.9.                *)
(*   - a call's outcome is Return(value) or Raise(exception, message).     *)
(***************************************************************************)
EXTENDS Integers, Sequences, FiniteSets, TLC

VARIABLES
  pc,               \* "idle": no call in progress; "done": a call has completed
  call,             \* the public method called last, with its arguments
  outcome,          \* what that call gave its caller
  events,           \* the steps that call performed, in order
  context,          \* self.context
  model_id,         \* self.model_id
  document_memory,  \* self.document_memory
  previous,         \* the classification a caller kept to compare the next one with
  threads           \* two threads calling process_query on the one agent: each
                    \* thread's position in the method and its local variables

vars == <<pc, call, outcome, events, context, model_id, document_memory, previous,
          threads>>

----------------------------------------------------------------------------
(* Python values *)

None == [t |-> "NoneType"]

UnhashableId == [t |-> "list"]

DictDocument == [t |-> "dict"]

EmptyDict == [k \in {} |-> 0]

Return(v) == [kind |-> "return", value |-> v]

Raise(exc, msg) == [kind |-> "raise", exc |-> exc, msg |-> msg]

\* a str argument; s is its text
Str(s) == [t |-> "str", s |-> s]

IsStr(v) == v.t = "str"

\* an argument's truth value: None and "" are false, a non-empty list is true
Truthy(v) == IF IsStr(v) THEN v.s # <<>> ELSE v # None

\* len(v)
len(v) ==
  IF IsStr(v) THEN Return(Len(v.s))
  ELSE IF v = DictDocument THEN Return(1)
  ELSE Raise("TypeError", "object of type 'NoneType' has no len()")

UpperCase ==
  <<"A","B","C","D","E","F","G","H","I","J","K","L","M",
    "N","O","P","Q","R","S","T","U","V","W","X","Y","Z">>

LowerCase ==
  <<"a","b","c","d","e","f","g","h","i","j","k","l","m",
    "n","o","p","q","r","s","t","u","v","w","x","y","z">>

\* str.lower() on one character
LowerChar(c) ==
  IF \E i \in DOMAIN UpperCase : UpperCase[i] = c
  THEN LowerCase[CHOOSE i \in DOMAIN UpperCase : UpperCase[i] = c]
  ELSE c

\* str.lower()
lower(s) == [i \in DOMAIN s |-> LowerChar(s[i])]

\* Python's `word in text` on strings: substring containment
In(word, text) ==
  \E i \in 0..(Len(text) - Len(word)) : SubSeq(text, i + 1, i + Len(word)) = word

\* any(word in text for word in words)
AnyIn(words, text) == \E k \in DOMAIN words : In(words[k], text)

\* content[:n]
Slice(content, n) == SubSeq(content, 1, IF Len(content) < n THEN Len(content) ELSE n)

----------------------------------------------------------------------------
(* The keyword lists of _fallback_intent_analysis, in source order *)

\* agent_intelligence.py line 48: ['conclusion', 'conclude', 'concluding', 'final', 'ending', 'summary of findings']
ConclusionWords ==
  <<
    <<"c","o","n","c","l","u","s","i","o","n">>,
    <<"c","o","n","c","l","u","d","e">>,
    <<"c","o","n","c","l","u","d","i","n","g">>,
    <<"f","i","n","a","l">>,
    <<"e","n","d","i","n","g">>,
    <<"s","u","m","m","a","r","y"," ","o","f"," ","f","i","n","d","i","n","g","s">> >>

\* agent_intelligence.py line 59: ['author', 'writer', 'who wrote', 'who is the author', 'who created', 'who is author']
AuthorWords ==
  <<
    <<"a","u","t","h","o","r">>,
    <<"w","r","i","t","e","r">>,
    <<"w","h","o"," ","w","r","o","t","e">>,
    <<"w","h","o"," ","i","s"," ","t","h","e"," ","a","u","t","h","o","r">>,
    <<"w","h","o"," ","c","r","e","a","t","e","d">>,
    <<"w","h","o"," ","i","s"," ","a","u","t","h","o","r">> >>

\* agent_intelligence.py line 70: ['finding', 'findings', 'main finding', 'key finding', 'result']
FindingsWords ==
  <<
    <<"f","i","n","d","i","n","g">>,
    <<"f","i","n","d","i","n","g","s">>,
    <<"m","a","i","n"," ","f","i","n","d","i","n","g">>,
    <<"k","e","y"," ","f","i","n","d","i","n","g">>,
    <<"r","e","s","u","l","t">> >>

\* agent_intelligence.py line 81: ['person', 'people', 'personnel', 'individuals', 'names']
PeopleWords ==
  <<
    <<"p","e","r","s","o","n">>,
    <<"p","e","o","p","l","e">>,
    <<"p","e","r","s","o","n","n","e","l">>,
    <<"i","n","d","i","v","i","d","u","a","l","s">>,
    <<"n","a","m","e","s">> >>

\* agent_intelligence.py line 103: ['organization', 'company', 'institution', 'university', 'college', 'school']
OrganizationWords ==
  <<
    <<"o","r","g","a","n","i","z","a","t","i","o","n">>,
    <<"c","o","m","p","a","n","y">>,
    <<"i","n","s","t","i","t","u","t","i","o","n">>,
    <<"u","n","i","v","e","r","s","i","t","y">>,
    <<"c","o","l","l","e","g","e">>,
    <<"s","c","h","o","o","l">> >>

\* agent_intelligence.py line 114: ['action item', 'task', 'todo', 'deadline', 'responsibility', 'recommendation', 'suggestion']
ActionItemWords ==
  <<
    <<"a","c","t","i","o","n"," ","i","t","e","m">>,
    <<"t","a","s","k">>,
    <<"t","o","d","o">>,
    <<"d","e","a","d","l","i","n","e">>,
    <<"r","e","s","p","o","n","s","i","b","i","l","i","t","y">>,
    <<"r","e","c","o","m","m","e","n","d","a","t","i","o","n">>,
    <<"s","u","g","g","e","s","t","i","o","n">> >>

\* the translation rule looks for the word translate only
TranslateWordOnly == << <<"t","r","a","n","s","l","a","t","e">> >>

\* agent_intelligence.py line 125: ['translate', 'spanish', 'french', 'german', 'chinese', 'japanese', 'language']
TranslateWords ==
  <<
    <<"t","r","a","n","s","l","a","t","e">>,
    <<"s","p","a","n","i","s","h">>,
    <<"f","r","e","n","c","h">>,
    <<"g","e","r","m","a","n">>,
    <<"c","h","i","n","e","s","e">>,
    <<"j","a","p","a","n","e","s","e">>,
    <<"l","a","n","g","u","a","g","e">> >>

\* agent_intelligence.py line 145: ['classify', 'type', 'category', 'what kind', 'document type']
ClassifyWords ==
  <<
    <<"c","l","a","s","s","i","f","y">>,
    <<"t","y","p","e">>,
    <<"c","a","t","e","g","o","r","y">>,
    <<"w","h","a","t"," ","k","i","n","d">>,
    <<"d","o","c","u","m","e","n","t"," ","t","y","p","e">> >>

\* agent_intelligence.py line 156: ['insight', 'pattern', 'trend', 'discovery']
InsightWords ==
  <<
    <<"i","n","s","i","g","h","t">>,
    <<"p","a","t","t","e","r","n">>,
    <<"t","r","e","n","d">>,
    <<"d","i","s","c","o","v","e","r","y">> >>

\* agent_intelligence.py line 167: ['sentiment', 'tone', 'emotion', 'mood', 'attitude', 'feeling']
SentimentWords ==
  <<
    <<"s","e","n","t","i","m","e","n","t">>,
    <<"t","o","n","e">>,
    <<"e","m","o","t","i","o","n">>,
    <<"m","o","o","d">>,
    <<"a","t","t","i","t","u","d","e">>,
    <<"f","e","e","l","i","n","g">> >>

\* agent_intelligence.py line 178: ['compare', 'difference', 'similar', 'versus', 'vs', 'against']
CompareWords ==
  <<
    <<"c","o","m","p","a","r","e">>,
    <<"d","i","f","f","e","r","e","n","c","e">>,
    <<"s","i","m","i","l","a","r">>,
    <<"v","e","r","s","u","s">>,
    <<"v","s">>,
    <<"a","g","a","i","n","s","t">> >>

\* agent_intelligence.py line 189: ['summarize', 'summary', 'summarize', 'overview', 'brief']
SummarizeWords ==
  <<
    <<"s","u","m","m","a","r","i","z","e">>,
    <<"s","u","m","m","a","r","y">>,
    <<"s","u","m","m","a","r","i","z","e">>,
    <<"o","v","e","r","v","i","e","w">>,
    <<"b","r","i","e","f">> >>

\* agent_intelligence.py line 200: ['what', 'how', 'why', 'when', 'where', 'which', 'question']
QuestionWords ==
  <<
    <<"w","h","a","t">>,
    <<"h","o","w">>,
    <<"w","h","y">>,
    <<"w","h","e","n">>,
    <<"w","h","e","r","e">>,
    <<"w","h","i","c","h">>,
    <<"q","u","e","s","t","i","o","n">> >>

\* agent_intelligence.py line 209: ['action item', 'task', 'todo', 'deadline', 'responsibility']
ActionItemWords2 ==
  <<
    <<"a","c","t","i","o","n"," ","i","t","e","m">>,
    <<"t","a","s","k">>,
    <<"t","o","d","o">>,
    <<"d","e","a","d","l","i","n","e">>,
    <<"r","e","s","p","o","n","s","i","b","i","l","i","t","y">> >>

\* agent_intelligence.py line 218: ['who', 'person', 'people', 'organization', 'company']
EntityWords2 ==
  <<
    <<"w","h","o">>,
    <<"p","e","r","s","o","n">>,
    <<"p","e","o","p","l","e">>,
    <<"o","r","g","a","n","i","z","a","t","i","o","n">>,
    <<"c","o","m","p","a","n","y">> >>

\* agent_intelligence.py line 227: ['translate', 'spanish', 'french', 'german', 'chinese', 'japanese']
TranslateWords2 ==
  <<
    <<"t","r","a","n","s","l","a","t","e">>,
    <<"s","p","a","n","i","s","h">>,
    <<"f","r","e","n","c","h">>,
    <<"g","e","r","m","a","n">>,
    <<"c","h","i","n","e","s","e">>,
    <<"j","a","p","a","n","e","s","e">> >>

\* agent_intelligence.py line 245: ['classify', 'type', 'category', 'what kind']
ClassifyWords2 ==
  <<
    <<"c","l","a","s","s","i","f","y">>,
    <<"t","y","p","e">>,
    <<"c","a","t","e","g","o","r","y">>,
    <<"w","h","a","t"," ","k","i","n","d">> >>

\* agent_intelligence.py line 254: ['insight', 'pattern', 'trend', 'key finding']
InsightWords2 ==
  <<
    <<"i","n","s","i","g","h","t">>,
    <<"p","a","t","t","e","r","n">>,
    <<"t","r","e","n","d">>,
    <<"k","e","y"," ","f","i","n","d","i","n","g">> >>

\* agent_intelligence.py line 263: ['sentiment', 'tone', 'emotion', 'mood']
SentimentWords2 ==
  <<
    <<"s","e","n","t","i","m","e","n","t">>,
    <<"t","o","n","e">>,
    <<"e","m","o","t","i","o","n">>,
    <<"m","o","o","d">> >>

\* agent_intelligence.py line 272: ['compare', 'difference', 'similar', 'versus']
CompareWords2 ==
  <<
    <<"c","o","m","p","a","r","e">>,
    <<"d","i","f","f","e","r","e","n","c","e">>,
    <<"s","i","m","i","l","a","r">>,
    <<"v","e","r","s","u","s">> >>

\* agent_intelligence.py line 281: ['summarize', 'summary', 'summarize']
SummarizeWords2 ==
  <<
    <<"s","u","m","m","a","r","i","z","e">>,
    <<"s","u","m","m","a","r","y">>,
    <<"s","u","m","m","a","r","i","z","e">> >>

\* a suggestions list whose example names no action
VagueSuggestions == << <<"T","e","l","l"," ","m","e"," ","m","o","r","e">> >>

\* agent_intelligence.py lines 296-307: the suggested example queries
Suggestions ==
  <<
    <<"W","h","a","t"," ","i","s"," ","t","h","i","s"," ","d","o","c","u","m","e","n","t"," ","a","b","o","u","t","?">>,
    <<"W","h","o"," ","i","s"," ","t","h","e"," ","a","u","t","h","o","r","?">>,
    <<"W","h","a","t"," ","i","s"," ","t","h","e"," ","c","o","n","c","l","u","s","i","o","n","?">>,
    <<"W","h","o"," ","a","r","e"," ","t","h","e"," ","k","e","y"," ","p","e","o","p","l","e"," ","m","e","n","t","i","o","n","e","d","?">>,
    <<"W","h","a","t"," ","o","r","g","a","n","i","z","a","t","i","o","n","s"," ","a","r","e"," ","m","e","n","t","i","o","n","e","d","?">>,
    <<"W","h","a","t"," ","a","r","e"," ","t","h","e"," ","m","a","i","n"," ","f","i","n","d","i","n","g","s","?">>,
    <<"E","x","t","r","a","c","t"," ","a","c","t","i","o","n"," ","i","t","e","m","s">>,
    <<"S","u","m","m","a","r","i","z","e"," ","t","h","i","s"," ","d","o","c","u","m","e","n","t">>,
    <<"C","l","a","s","s","i","f","y"," ","d","o","c","u","m","e","n","t"," ","t","y","p","e">>,
    <<"A","n","a","l","y","z","e"," ","s","e","n","t","i","m","e","n","t">> >>

ConclusionQuestion == <<"W","h","a","t"," ","i","s"," ","t","h","e"," ","c","o","n","c","l","u","s","i","o","n"," ","o","f"," ","t","h","i","s"," ","d","o","c","u","m","e","n","t","?">>

AuthorQuestion == <<"W","h","o"," ","i","s"," ","t","h","e"," ","a","u","t","h","o","r"," ","o","f"," ","t","h","i","s"," ","d","o","c","u","m","e","n","t","?">>

DefaultQuestion == <<"W","h","a","t"," ","i","s"," ","t","h","i","s"," ","d","o","c","u","m","e","n","t"," ","a","b","o","u","t","?">>
----------------------------------------------------------------------------
(* The intent classifier *)

\* the confidence written as a percentage
IntentPercent(action, confidence, reasoning, parameters, requires_multiple_docs) ==
  [action |-> action, confidence |-> confidence * 10, reasoning |-> reasoning,
   parameters |-> parameters, requires_multiple_docs |-> requires_multiple_docs]

\* no intent asks for several documents
IntentSingleDocument(action, confidence, reasoning, parameters, requires_multiple_docs) ==
  [action |-> action, confidence |-> confidence, reasoning |-> reasoning,
   parameters |-> parameters, requires_multiple_docs |-> FALSE]

\* the dict literal every branch returns
Intent(action, confidence, reasoning, parameters, requires_multiple_docs) ==
  [action |-> action, confidence |-> confidence, reasoning |-> reasoning,
   parameters |-> parameters, requires_multiple_docs |-> requires_multiple_docs]

\* the language tests with German ahead of French
TargetLangGermanFirst(query_lower) ==
  IF In(<<"g","e","r","m","a","n">>, query_lower) THEN "German"
  ELSE IF In(<<"f","r","e","n","c","h">>, query_lower) THEN "French"
  ELSE IF In(<<"c","h","i","n","e","s","e">>, query_lower) THEN "Chinese"
  ELSE IF In(<<"j","a","p","a","n","e","s","e">>, query_lower) THEN "Japanese"
  ELSE "Spanish"

\* target_lang of the translation branches (lines 127-135 and 229-237)
TargetLang(query_lower) ==
  IF In(<<"f","r","e","n","c","h">>, query_lower) THEN "French"
  ELSE IF In(<<"g","e","r","m","a","n">>, query_lower) THEN "German"
  ELSE IF In(<<"c","h","i","n","e","s","e">>, query_lower) THEN "Chinese"
  ELSE IF In(<<"j","a","p","a","n","e","s","e">>, query_lower) THEN "Japanese"
  ELSE "Spanish"

Author == <<"a","u","t","h","o","r">>

Who == <<"w","h","o">>

\* lines 290-309: the final else
ClarificationIntent ==
  Intent("ask_clarification", 3,
         "User query unclear - need clarification on what they want",
         [suggestions |-> Suggestions], FALSE)

\* an older default: a query that matches nothing is summarized
DefaultToSummarize(user_query, query_lower) ==
  Intent("summarize", 5, "Default action", EmptyDict, FALSE)

\* the clarification intent carries the query as it was typed
ClarificationEchoesQuery(user_query, query_lower) ==
  Intent("ask_clarification", 3,
         "User query unclear - need clarification on what they want",
         [suggestions |-> Suggestions, question |-> user_query], FALSE)

\* lines 209-309: the branches after the generic-interrogative rule and the final else
RepeatedBranches(user_query, query_lower) ==
  IF AnyIn(ActionItemWords2, query_lower) THEN
    Intent("extract_action_items", 7, "User wants action items and tasks", EmptyDict, FALSE)
  ELSE IF AnyIn(EntityWords2, query_lower) THEN
    Intent("extract_entities", 7, "User asking about people or organizations",
           [entity_types |-> <<"PERSON", "ORGANIZATION">>], FALSE)
  ELSE IF AnyIn(TranslateWords2, query_lower) THEN
    Intent("translate", 8, "User requested translation to " \o TargetLang(query_lower),
           [target_language |-> TargetLang(query_lower)], FALSE)
  ELSE IF AnyIn(ClassifyWords2, query_lower) THEN
    Intent("classify", 7, "User wants to classify the document type", EmptyDict, FALSE)
  ELSE IF AnyIn(InsightWords2, query_lower) THEN
    Intent("extract_insights", 7, "User wants key insights and patterns", EmptyDict, FALSE)
  ELSE IF AnyIn(SentimentWords2, query_lower) THEN
    Intent("analyze_sentiment", 7, "User wants sentiment analysis", EmptyDict, FALSE)
  ELSE IF AnyIn(CompareWords2, query_lower) THEN
    Intent("compare_documents", 7, "User wants to compare documents", EmptyDict, TRUE)
  ELSE IF AnyIn(SummarizeWords2, query_lower) THEN
    Intent("summarize", 8, "User requested summarization", EmptyDict, FALSE)
  ELSE ClarificationIntent

\* lines 69-208: the findings rule to the generic-interrogative rule
FindingsAndLaterBranches(user_query, query_lower) ==
  IF AnyIn(FindingsWords, query_lower) THEN
    Intent("answer_question", 8, "User asking about specific findings in the document",
           [question |-> user_query], FALSE)
  ELSE IF AnyIn(PeopleWords, query_lower) /\ ~In(Author, query_lower) THEN
    Intent("extract_entities", 8, "User asking about people or individuals mentioned",
           [entity_types |-> <<"PERSON", "ORGANIZATION">>], FALSE)
  ELSE IF In(Who, query_lower) /\ ~In(Author, query_lower) THEN
    Intent("extract_entities", 8, "User asking about people or individuals mentioned",
           [entity_types |-> <<"PERSON", "ORGANIZATION">>], FALSE)
  ELSE IF AnyIn(OrganizationWords, query_lower) THEN
    Intent("extract_entities", 8, "User asking about organizations or institutions",
           [entity_types |-> <<"ORGANIZATION">>], FALSE)
  ELSE IF AnyIn(ActionItemWords, query_lower) THEN
    Intent("extract_action_items", 8, "User wants action items and tasks", EmptyDict, FALSE)
  ELSE IF AnyIn(TranslateWords, query_lower) THEN
    Intent("translate", 9, "User requested translation to " \o TargetLang(query_lower),
           [target_language |-> TargetLang(query_lower)], FALSE)
  ELSE IF AnyIn(ClassifyWords, query_lower) THEN
    Intent("classify", 8, "User wants to classify the document type", EmptyDict, FALSE)
  ELSE IF AnyIn(InsightWords, query_lower) THEN
    Intent("extract_insights", 8, "User wants key insights and patterns", EmptyDict, FALSE)
  ELSE IF AnyIn(SentimentWords, query_lower) THEN
    Intent("analyze_sentiment", 8, "User wants sentiment analysis", EmptyDict, FALSE)
  ELSE IF AnyIn(CompareWords, query_lower) THEN
    Intent("compare_documents", 7, "User wants to compare documents", EmptyDict, TRUE)
  ELSE IF AnyIn(SummarizeWords, query_lower) THEN
    Intent("summarize", 8, "User requested summarization", EmptyDict, FALSE)
  ELSE IF AnyIn(QuestionWords, query_lower) THEN
    Intent("answer_question", 7, "User asking a general question about the document",
           [question |-> user_query], FALSE)
  ELSE RepeatedBranches(user_query, query_lower)

\* the chain with the generic "who" rule tested before the author rule
WhoBeforeAuthor(user_query) ==
  LET query_lower == lower(user_query) IN
  IF AnyIn(ConclusionWords, query_lower) THEN
    Intent("answer_question", 9, "User asking about the conclusion of the document",
           [question |-> ConclusionQuestion], FALSE)
  ELSE IF In(Who, query_lower) THEN
    Intent("extract_entities", 8, "User asking about people or individuals mentioned",
           [entity_types |-> <<"PERSON", "ORGANIZATION">>], FALSE)
  ELSE IF AnyIn(AuthorWords, query_lower) THEN
    Intent("answer_question", 9, "User asking about the author of the document",
           [question |-> AuthorQuestion], FALSE)
  ELSE FindingsAndLaterBranches(user_query, query_lower)

\* the chain without the author rule
NoAuthorRule(user_query) ==
  LET query_lower == lower(user_query) IN
  IF AnyIn(ConclusionWords, query_lower) THEN
    Intent("answer_question", 9, "User asking about the conclusion of the document",
           [question |-> ConclusionQuestion], FALSE)
  ELSE FindingsAndLaterBranches(user_query, query_lower)

\* the rules after the author rule are given the lowercased query for the
\* original one
FallbackKeepsLowered(user_query) ==
  LET query_lower == lower(user_query) IN
  IF AnyIn(ConclusionWords, query_lower) THEN
    Intent("answer_question", 9, "User asking about the conclusion of the document",
           [question |-> ConclusionQuestion], FALSE)
  ELSE IF AnyIn(AuthorWords, query_lower) THEN
    Intent("answer_question", 9, "User asking about the author of the document",
           [question |-> AuthorQuestion], FALSE)
  ELSE FindingsAndLaterBranches(query_lower, query_lower)

\* lines 40-67: lower-casing, the conclusion rule and the author rule, then the rest of the chain
_fallback_intent_analysis(user_query) ==
  LET query_lower == lower(user_query) IN
  IF AnyIn(ConclusionWords, query_lower) THEN
    Intent("answer_question", 9, "User asking about the conclusion of the document",
           [question |-> ConclusionQuestion], FALSE)
  ELSE IF AnyIn(AuthorWords, query_lower) THEN
    Intent("answer_question", 9, "User asking about the author of the document",
           [question |-> AuthorQuestion], FALSE)
  ELSE FindingsAndLaterBranches(user_query, query_lower)

\* the classifier consults the cached documents: with a document in the cache
\* the intent asks for several documents
AnalyzeWithMemory(user_query) ==
  IF IsStr(user_query)
  THEN Return([_fallback_intent_analysis(user_query.s) EXCEPT
                 !.requires_multiple_docs = (DOMAIN document_memory # {})])
  ELSE Raise("AttributeError", "'NoneType' object has no attribute 'lower'")

\* analyze_user_intent(user_query): lower() of a value that is no str raises
analyze_user_intent(user_query) ==
  IF IsStr(user_query)
  THEN Return(_fallback_intent_analysis(user_query.s))
  ELSE Raise("AttributeError", "'NoneType' object has no attribute 'lower'")

----------------------------------------------------------------------------
(* The Bedrock call.  `backend` is what the service does on this call:       *)
(* [mode |-> "ok", text |-> t] answers with text t, [mode |-> "raises",      *)
(* msg |-> m] makes invoke_model raise, [mode |-> "no_content"] answers with *)
(* a body that has no content.                                              *)

\* _call_bedrock: every exception is caught and turned into the returned text
_call_bedrock(prompt, backend) ==
  IF backend.mode = "ok" THEN Return(backend.text)
  ELSE IF backend.mode = "no_content"
  THEN Return("Error: Unexpected response format from Bedrock")
  ELSE Return("Error calling Bedrock: " \o backend.msg)

\* json.loads on the model's text
json_loads(text) ==
  IF text = "{}" THEN Return(EmptyDict)
  ELSE Raise("JSONDecodeError", "Expecting value: line 1 column 1 (char 0)")

\* json.loads on the response with no except clause around it
ParseEntitiesUnguarded(response) == json_loads(response)

\* lines 418-423: json.loads on the response, and the except json.JSONDecodeError clause
ParseEntities(response) ==
  LET parsed == json_loads(response)
  IN IF parsed.kind = "raise" /\ parsed.exc = "JSONDecodeError"
     THEN Return([raw_response |-> response, error |-> "JSON parsing failed"])
     ELSE parsed

----------------------------------------------------------------------------
(* The handlers.  Each gives [outcome, handler, prompts]: what it returned   *)
(* or raised, its name, and the prompts it sent to _call_bedrock.            *)

Ran(result, handler, prompts) ==
  [outcome |-> result, handler |-> handler, prompts |-> prompts]

IsDict(p) == "t" \notin DOMAIN p

\* parameters.get(key, default)
Get(parameters, key, default) ==
  IF key \in DOMAIN parameters THEN parameters[key] ELSE default

NoGet == Raise("AttributeError", "'str' object has no attribute 'get'")

NoLen == Raise("TypeError", "object of type 'NoneType' has no len()")

NoSlice == Raise("TypeError", "'NoneType' object is not subscriptable")

\* content[:n] on a dict
NoSliceOfDict == Raise("TypeError", "unhashable type: 'slice'")

\* a handler that takes len(content) and then content[:n], on a content that is no str
NoLenOf(content) == IF content = None THEN NoLen ELSE NoSliceOfDict

\* a handler that takes content[:n] first, on a content that is no str
NoSliceOf(content) == IF content = None THEN NoSlice ELSE NoSliceOfDict

\* the handler sends its prompt a second time when the first answer had no content
CalledWithRetry(handler, prompt, response, result) ==
  IF response.value = "Error: Unexpected response format from Bedrock"
  THEN Ran(Return(result), handler, <<prompt, prompt>>)
  ELSE Ran(Return(result), handler, <<prompt>>)

\* the handler's return after its model call: response is what _call_bedrock gave
Called(handler, prompt, response, result) ==
  IF response.kind = "raise" THEN Ran(response, handler, <<prompt>>)
  ELSE Ran(Return(result), handler, <<prompt>>)

_summarize_document(content, backend) ==
  IF ~IsStr(content) THEN Ran(NoLenOf(content), "_summarize_document", <<>>)
  ELSE
    LET prompt == [task |-> "summarize", document |-> Slice(content.s, 8000)]
        response == _call_bedrock(prompt, backend)
    IN Called("_summarize_document", prompt, response,
              [action |-> "summarize", result |-> response.value,
               content_length |-> Len(content.s), summary_length |-> Len(response.value)])

_extract_entities(content, parameters, backend) ==
  LET entity_types ==
        Get(parameters, "entity_types", <<"PERSON", "ORGANIZATION", "DATE", "LOCATION">>)
  IN IF ~IsDict(parameters) THEN Ran(NoGet, "_extract_entities", <<>>)
     ELSE IF ~IsStr(content) THEN Ran(NoLenOf(content), "_extract_entities", <<>>)
     ELSE
       LET prompt == [task |-> "extract_entities", entity_types |-> entity_types,
                      document |-> Slice(content.s, 6000)]
           response == _call_bedrock(prompt, backend)
           entities == ParseEntities(response.value)
       IN IF entities.kind = "raise" THEN Ran(entities, "_extract_entities", <<prompt>>)
          ELSE Called("_extract_entities", prompt, response,
                      [action |-> "extract_entities", entities |-> entities.value,
                       entity_types |-> entity_types])

_answer_question(content, parameters, backend) ==
  LET question == Get(parameters, "question", DefaultQuestion)
  IN IF ~IsDict(parameters) THEN Ran(NoGet, "_answer_question", <<>>)
     ELSE IF ~IsStr(content) THEN Ran(NoLenOf(content), "_answer_question", <<>>)
     ELSE
       LET prompt == [task |-> "answer_question", question |-> question,
                      document |-> Slice(content.s, 8000)]
           response == _call_bedrock(prompt, backend)
       IN Called("_answer_question", prompt, response,
                 [action |-> "answer_question", question |-> question, answer |-> response.value])

_compare_documents(content, parameters, backend) ==
  IF ~IsStr(content) THEN Ran(NoSliceOf(content), "_compare_documents", <<>>)
  ELSE
    LET prompt == [task |-> "compare_documents", document |-> Slice(content.s, 6000)]
        response == _call_bedrock(prompt, backend)
    IN Called("_compare_documents", prompt, response,
              [action |-> "compare_documents", analysis |-> response.value,
               note |-> "Multiple document comparison requires additional documents"])

_translate_document(content, parameters, backend) ==
  LET target_language == Get(parameters, "target_language", "Spanish")
  IN IF ~IsDict(parameters) THEN Ran(NoGet, "_translate_document", <<>>)
     ELSE IF ~IsStr(content) THEN Ran(NoSliceOf(content), "_translate_document", <<>>)
     ELSE
       LET prompt == [task |-> "translate", target_language |-> target_language,
                      document |-> Slice(content.s, 6000)]
           response == _call_bedrock(prompt, backend)
       IN Called("_translate_document", prompt, response,
                 [action |-> "translate", target_language |-> target_language,
                  translation |-> response.value, original_length |-> Len(content.s)])

\* the classification prompt embeds the prefix the summary prompt embeds
ClassifyLongPrefix(content, backend) ==
  IF ~IsStr(content) THEN Ran(NoSliceOf(content), "_classify_document", <<>>)
  ELSE
    LET prompt == [task |-> "classify", document |-> Slice(content.s, 8000)]
        response == _call_bedrock(prompt, backend)
    IN Called("_classify_document", prompt, response,
              [action |-> "classify", classification |-> response.value])

_classify_document(content, backend) ==
  IF ~IsStr(content) THEN Ran(NoSliceOf(content), "_classify_document", <<>>)
  ELSE
    LET prompt == [task |-> "classify", document |-> Slice(content.s, 4000)]
        response == _call_bedrock(prompt, backend)
    IN Called("_classify_document", prompt, response,
              [action |-> "classify", classification |-> response.value])

_extract_insights(content, backend) ==
  IF ~IsStr(content) THEN Ran(NoSliceOf(content), "_extract_insights", <<>>)
  ELSE
    LET prompt == [task |-> "extract_insights", document |-> Slice(content.s, 8000)]
        response == _call_bedrock(prompt, backend)
    IN Called("_extract_insights", prompt, response,
              [action |-> "extract_insights", insights |-> response.value])

_find_information(content, parameters, backend) ==
  LET search_terms == Get(parameters, "search_terms", <<"key", "important", "main">>)
  IN IF ~IsDict(parameters) THEN Ran(NoGet, "_find_information", <<>>)
     ELSE IF ~IsStr(content) THEN Ran(NoSliceOf(content), "_find_information", <<>>)
     ELSE
       LET prompt == [task |-> "find_information", search_terms |-> search_terms,
                      document |-> Slice(content.s, 8000)]
           response == _call_bedrock(prompt, backend)
       IN Called("_find_information", prompt, response,
                 [action |-> "find_information", search_terms |-> search_terms,
                  results |-> response.value])

_analyze_sentiment(content, backend) ==
  IF ~IsStr(content) THEN Ran(NoSliceOf(content), "_analyze_sentiment", <<>>)
  ELSE
    LET prompt == [task |-> "analyze_sentiment", document |-> Slice(content.s, 6000)]
        response == _call_bedrock(prompt, backend)
    IN Called("_analyze_sentiment", prompt, response,
              [action |-> "analyze_sentiment", sentiment_analysis |-> response.value])

_extract_action_items(content, backend) ==
  IF ~IsStr(content) THEN Ran(NoSliceOf(content), "_extract_action_items", <<>>)
  ELSE
    LET prompt == [task |-> "extract_action_items", document |-> Slice(content.s, 8000)]
        response == _call_bedrock(prompt, backend)
    IN Called("_extract_action_items", prompt, response,
              [action |-> "extract_action_items", action_items |-> response.value])

\* the message lists the suggestions, numbered from 1, between two fixed texts
_ask_clarification(parameters) ==
  LET suggestions == Get(parameters, "suggestions", <<>>)
  IN IF ~IsDict(parameters) THEN Ran(NoGet, "_ask_clarification", <<>>)
     ELSE Ran(Return([action |-> "ask_clarification",
                      message |-> [intro |-> "I'm not sure what you'd like me to do with this document.",
                                   numbered |-> [i \in DOMAIN suggestions |-> <<i, suggestions[i]>>],
                                   outro |-> "Just tell me what you're looking for, and I'll help you find it!"],
                      suggestions |-> suggestions]),
              "_ask_clarification", <<>>)

----------------------------------------------------------------------------
(* The dispatcher *)

\* an unknown action raises instead of returning the error result
UnknownActionRaises(action) ==
  Ran(Raise("ValueError", "Unknown action: " \o action), "none", <<>>)

\* lines 341-342: the final else of the chain
UnknownAction(action) ==
  Ran(Return([error |-> "Unknown action: " \o action]), "none", <<>>)

\* the chain ends with the actions of the AgentAction enum
LastBranchesEnumOnly(action, parameters) == UnknownAction(action)

\* lines 339-342: the ask_clarification branch and the final else
LastBranches(action, parameters) ==
  IF action = "ask_clarification" THEN _ask_clarification(parameters)
  ELSE UnknownAction(action)

\* lines 319-342: the if/elif chain over the action name
Dispatch(action, document_content, parameters, backend) ==
  IF action = "summarize" THEN _summarize_document(document_content, backend)
  ELSE IF action = "extract_entities"
  THEN _extract_entities(document_content, parameters, backend)
  ELSE IF action = "answer_question"
  THEN _answer_question(document_content, parameters, backend)
  ELSE IF action = "compare_documents"
  THEN _compare_documents(document_content, parameters, backend)
  ELSE IF action = "translate"
  THEN _translate_document(document_content, parameters, backend)
  ELSE IF action = "classify" THEN _classify_document(document_content, backend)
  ELSE IF action = "extract_insights" THEN _extract_insights(document_content, backend)
  ELSE IF action = "find_information"
  THEN _find_information(document_content, parameters, backend)
  ELSE IF action = "analyze_sentiment" THEN _analyze_sentiment(document_content, backend)
  ELSE IF action = "extract_action_items"
  THEN _extract_action_items(document_content, backend)
  ELSE LastBranches(action, parameters)

\* the result also reports how many documents the agent holds
ExecuteReadsCache(action, document_content, parameters, backend) ==
  LET ran == Dispatch(action, document_content,
                      IF parameters = None THEN EmptyDict ELSE parameters, backend)
  IN IF ran.outcome.kind = "raise"
     THEN Ran(Return([error |-> "Error executing action " \o action \o ": " \o ran.outcome.msg]),
              ran.handler, ran.prompts)
     ELSE Ran(Return([action |-> action, result |-> ran.outcome.value,
                      documents |-> Cardinality(DOMAIN document_memory)]),
              ran.handler, ran.prompts)

\* execute_action with no try/except around the chain
ExecuteUnguarded(action, document_content, parameters, backend) ==
  Dispatch(action, document_content,
           IF parameters = None THEN EmptyDict ELSE parameters, backend)

\* the except clause keeps the action beside the error
ExecuteTaggedError(action, document_content, parameters, backend) ==
  LET ran == Dispatch(action, document_content,
                      IF parameters = None THEN EmptyDict ELSE parameters, backend)
  IN IF ran.outcome.kind = "raise"
     THEN Ran(Return([action |-> action,
                      error |-> "Error executing action " \o action \o ": " \o ran.outcome.msg]),
              ran.handler, ran.prompts)
     ELSE ran

\* execute_action: the default for parameters, the chain, and the except clause
execute_action(action, document_content, parameters, backend) ==
  LET ran == Dispatch(action, document_content,
                      IF parameters = None THEN EmptyDict ELSE parameters, backend)
  IN IF ran.outcome.kind = "raise"
     THEN Ran(Return([error |-> "Error executing action " \o action \o ": " \o ran.outcome.msg]),
              ran.handler, ran.prompts)
     ELSE ran

----------------------------------------------------------------------------
(* process_query *)

\* self.document_memory.setdefault(document_id, document_content): the first
\* content cached under an id stays
PutIfAbsent(memory, document_id, document_content) ==
  [k \in DOMAIN memory \cup {document_id} |->
     IF k \in DOMAIN memory THEN memory[k] ELSE document_content]

\* self.document_memory[document_id] = document_content
Put(memory, document_id, document_content) ==
  [k \in DOMAIN memory \cup {document_id} |->
     IF k = document_id THEN document_content ELSE memory[k]]

Stored(document_content, document_id) == Truthy(document_id) /\ Truthy(document_content)

Did(result, steps, memory) == [outcome |-> result, steps |-> steps, memory |-> memory]

HandlerSteps(ran) ==
  (IF ran.handler = "none" THEN <<>> ELSE <<ran.handler>>)
    \o [i \in DOMAIN ran.prompts |-> "_call_bedrock"]

\* the envelope reports the confidence the action result carries, and full
\* confidence when it carries none
EnvelopeResultConfidence(user_query, intent, result) ==
  [user_query |-> user_query,
   intent_analysis |-> intent,
   action_result |-> result,
   agent_reasoning |-> intent.reasoning,
   confidence |-> Get(result, "confidence", 10)]

\* an error result from execute_action is reported like an exception: the
\* intent is replaced by the "error" intent
EnvelopeErrorIsDegraded(user_query, intent, result) ==
  [user_query |-> user_query,
   intent_analysis |-> IF "error" \in DOMAIN result
                       THEN [action |-> "error", confidence |-> 0,
                             reasoning |-> "Error occurred"]
                       ELSE intent,
   action_result |-> result,
   agent_reasoning |-> IF "error" \in DOMAIN result THEN "Error occurred" ELSE intent.reasoning,
   confidence |-> IF "error" \in DOMAIN result THEN 0 ELSE intent.confidence]

\* lines 710-716: the envelope process_query returns
Envelope(user_query, intent, result) ==
  [user_query |-> user_query,
   intent_analysis |-> intent,
   action_result |-> result,
   agent_reasoning |-> intent.reasoning,
   confidence |-> intent.confidence]

\* the try block with the document cached after the dispatch instead of before
\* the classification
ProcessQueryCachesLast(user_query, document_content, document_id, memory, backend) ==
  IF len(document_content).kind = "raise" THEN Did(len(document_content), <<>>, memory)
  ELSE
    LET intent == analyze_user_intent(user_query)
    IN IF intent.kind = "raise" THEN Did(intent, <<"analyze_user_intent">>, memory)
       ELSE
         LET ran == execute_action(intent.value.action, document_content,
                                   intent.value.parameters, backend)
             steps2 == <<"analyze_user_intent", "execute_action">> \o HandlerSteps(ran)
         IN IF Stored(document_content, document_id) /\ document_id = UnhashableId
            THEN Did(Raise("TypeError", "unhashable type: 'list'"), steps2, memory)
            ELSE Did(Return(Envelope(user_query, intent.value, ran.outcome.value)),
                     steps2 \o (IF Stored(document_content, document_id)
                                THEN <<"cache">> ELSE <<>>) \o <<"envelope">>,
                     IF Stored(document_content, document_id)
                     THEN Put(memory, document_id, document_content) ELSE memory)

\* lines 694-716: the body of the try block
ProcessQueryBody(user_query, document_content, document_id, memory, backend) ==
  IF len(document_content).kind = "raise" THEN Did(len(document_content), <<>>, memory)
  ELSE IF Stored(document_content, document_id) /\ document_id = UnhashableId
  THEN Did(Raise("TypeError", "unhashable type: 'list'"), <<>>, memory)
  ELSE
    LET memory1 == IF Stored(document_content, document_id)
                   THEN Put(memory, document_id, document_content) ELSE memory
        steps1 == IF Stored(document_content, document_id)
                  THEN <<"cache">> ELSE <<>>
        intent == analyze_user_intent(user_query)
    IN IF intent.kind = "raise"
       THEN Did(intent, steps1 \o <<"analyze_user_intent">>, memory1)
       ELSE
         LET ran == execute_action(intent.value.action, document_content,
                                   intent.value.parameters, backend)
             steps2 == steps1 \o <<"analyze_user_intent", "execute_action">>
                         \o HandlerSteps(ran)
         IN IF ran.outcome.kind = "raise" THEN Did(ran.outcome, steps2, memory1)
            ELSE Did(Return(Envelope(user_query, intent.value, ran.outcome.value)),
                     steps2 \o <<"envelope">>, memory1)

\* process_query with no except clause
ProcessQueryUnguarded(user_query, document_content, document_id, memory, backend) ==
  ProcessQueryBody(user_query, document_content, document_id, memory, backend)

\* process_query: the try block and, lines 717-725, the except clause
process_query(user_query, document_content, document_id, memory, backend) ==
  LET did == ProcessQueryBody(user_query, document_content, document_id, memory, backend)
  IN IF did.outcome.kind = "raise"
     THEN Did(Return([user_query |-> user_query,
                      intent_analysis |-> [action |-> "error", confidence |-> 0,
                                           reasoning |-> "Error occurred"],
                      action_result |-> [error |-> "Processing error: " \o did.outcome.msg],
                      agent_reasoning |-> "Error occurred: " \o did.outcome.msg,
                      confidence |-> 0]),
              did.steps \o <<"degraded">>, did.memory)
     ELSE did

----------------------------------------------------------------------------
(* The agent object and its callers *)

NoCall == [op |-> "none"]

NoOutcome == [kind |-> "none"]

DefaultModelId == "anthropic.claude-3-sonnet-20240229-v1:0"

NoPrevious == [call |-> NoCall, outcome |-> NoOutcome]

Threads == {"t1", "t2"}

\* a thread that is not inside process_query
NotStarted ==
  [pc |-> "idle", call |-> NoCall, intent |-> NoOutcome, result |-> NoOutcome,
   envelope |-> NoOutcome]

\* __init__
Init ==
  /\ pc = "idle"
  /\ call = NoCall
  /\ outcome = NoOutcome
  /\ events = <<>>
  /\ context = EmptyDict
  /\ model_id = DefaultModelId
  /\ document_memory = EmptyDict
  /\ previous = NoPrevious
  /\ threads = [t \in Threads |-> NotStarted]

\* a caller invokes agent.analyze_user_intent(q)
AnalyzeUserIntent(q) ==
  /\ pc = "idle"
  /\ pc' = "done"
  /\ call' = [op |-> "analyze_user_intent", user_query |-> q]
  /\ outcome' = analyze_user_intent(q)
  /\ events' = <<"classify">>
  /\ UNCHANGED <<context, model_id, document_memory, previous, threads>>

\* a caller invokes agent.execute_action(action, document_content, parameters)
ExecuteAction(action, document_content, parameters, backend) ==
  /\ pc = "idle"
  /\ pc' = "done"
  /\ call' = [op |-> "execute_action", action |-> action,
              document_content |-> document_content, parameters |-> parameters,
              backend |-> backend]
  /\ \E ran \in {execute_action(action, document_content, parameters, backend)} :
        /\ outcome' = ran.outcome
        /\ events' = <<"execute_action">> \o HandlerSteps(ran)
  /\ UNCHANGED <<context, model_id, document_memory, previous, threads>>

\* a caller invokes agent.process_query(user_query, document_content, document_id)
ProcessQuery(user_query, document_content, document_id, backend) ==
  /\ pc = "idle"
  /\ pc' = "done"
  /\ call' = [op |-> "process_query", user_query |-> user_query,
              document_content |-> document_content, document_id |-> document_id,
              backend |-> backend]
  /\ \E did \in {process_query(user_query, document_content, document_id,
                                document_memory, backend)} :
        /\ outcome' = did.outcome
        /\ events' = did.steps
        /\ document_memory' = did.memory
  /\ UNCHANGED <<context, model_id, previous, threads>>

\* the caller takes the outcome; the agent is ready for the next call
Consume ==
  /\ pc = "done"
  /\ pc' = "idle"
  /\ call' = NoCall
  /\ outcome' = NoOutcome
  /\ events' = <<>>
  /\ UNCHANGED <<context, model_id, document_memory, previous, threads>>

\* the caller of analyze_user_intent keeps the intent it was given
Remember ==
  /\ pc = "done"
  /\ call.op = "analyze_user_intent"
  /\ pc' = "idle"
  /\ previous' = [call |-> call, outcome |-> outcome]
  /\ call' = NoCall
  /\ outcome' = NoOutcome
  /\ events' = <<>>
  /\ UNCHANGED <<context, model_id, document_memory, threads>>

----------------------------------------------------------------------------
(* The classifier on its own: queries assembled from the rules' keywords *)

Range(s) == {s[i] : i \in DOMAIN s}

RuleKeywords ==
  UNION {Range(ConclusionWords), Range(AuthorWords), Range(FindingsWords),
         Range(PeopleWords), {Who}, Range(OrganizationWords), Range(ActionItemWords),
         Range(TranslateWords), Range(ClassifyWords), Range(InsightWords),
         Range(SentimentWords), Range(CompareWords), Range(SummarizeWords),
         Range(QuestionWords)}

\* text with no keyword, upper-case spellings, and halves of the two-word keywords
Fillers ==
  { <<" ">>, <<"?">>, <<"x","y","z">>,
    <<"W","h","o">>, <<"A","U","T","H","O","R">>, <<"S","u","m","m","a","r","i","z","e">>,
    <<" ","w","r","o","t","e">>, <<" ","o","f"," ","f","i","n","d","i","n","g","s">>,
    <<" ","k","i","n","d">>, <<"a","c","t","i","o","n">>, <<" ","i","t","e","m">>,
    <<"W","h","o"," ","i","s"," ","t","h","e"," ","a","u","t","h","o","r","?">>,
    <<"E","x","t","r","a","c","t"," ","a","c","t","i","o","n"," ","i","t","e","m","s">>,
    <<"T","r","a","n","s","l","a","t","e"," ","t","o"," ","F","r","e","n","c","h">>,
    <<"a","s","d","k","j","f","h"," ","r","a","n","d","o","m"," ","t","e","x","t">> }

Vocabulary == RuleKeywords \cup Fillers

\* fragments that interact: parts of several rules' keywords
CoreVocabulary ==
  { <<"W","h","o">>, <<" ","w","r","o","t","e">>, <<"a","u","t","h","o","r">>,
    <<"p","e","o","p","l","e">>, <<"s","u","m","m","a","r","y">>,
    <<" ","o","f"," ","f","i","n","d","i","n","g","s">>, <<"w","h","a","t">>,
    <<" ","k","i","n","d">>, <<"G","e","r","m","a","n">>, <<"f","r","e","n","c","h">>,
    <<"t","a","s","k">>, <<"x","y","z">> }

MaxFragments == 3

RECURSIVE Concat(_)
Concat(fs) == IF fs = <<>> THEN <<>> ELSE Head(fs) \o Concat(Tail(fs))

\* every pair of fragments, and every sequence of at most MaxFragments core fragments
Queries ==
  {f \o g : f \in Vocabulary, g \in Vocabulary}
    \cup {Concat(fs) : fs \in UNION {[1..n -> CoreVocabulary] : n \in 0..MaxFragments}}
    \cup Vocabulary

ClassifyNext ==
  \/ \E q \in Queries : AnalyzeUserIntent(Str(q))
  \/ Consume

SpecClassify == Init /\ [][ClassifyNext]_vars

----------------------------------------------------------------------------
(* The agent and its callers *)

ActionKind ==
  {"summarize", "extract_entities", "answer_question", "compare_documents",
   "translate", "classify", "extract_insights", "find_information",
   "analyze_sentiment", "extract_action_items", "ask_clarification"}

TranslateToFrench ==
  <<"T","r","a","n","s","l","a","t","e"," ","t","o"," ","F","r","e","n","c","h">>

RandomText == <<"a","s","d","k","j","f","h"," ","r","a","n","d","o","m"," ","t","e","x","t">>

\* a query for every rule: the ten suggestions and six more
AgentQueries ==
  {Str(q) : q \in Range(Suggestions) \cup
     {TranslateToFrench, RandomText, <<>>, Who, <<"c","o","m","p","a","r","e">>,
      <<"i","n","s","i","g","h","t">>}}
    \cup {None}

Contents == {None, Str(<<>>), Str(<<"a">>), Str(<<"b","b">>), DictDocument}

MaxIds == 2

Digits == <<"1","2","3","4","5","6","7","8","9">>

DocumentIds ==
  {Str(<<"i","d",Digits[k]>>) : k \in 1..MaxIds} \cup {Str(<<>>), None, UnhashableId}

Backends ==
  { [mode |-> "ok", text |-> "{}"],
    [mode |-> "ok", text |-> "The document is a quarterly report."],
    [mode |-> "raises", msg |-> "Could not connect to the endpoint URL"],
    [mode |-> "no_content"] }

ActionNames == ActionKind \cup {"bogus", "error", "Summarize"}

ParameterValues ==
  { None, EmptyDict, Str(<<"x">>),
    [question |-> TranslateToFrench], [entity_types |-> <<"PERSON">>],
    [target_language |-> "German"], [search_terms |-> <<"budget">>],
    [suggestions |-> Suggestions] }

Next ==
  \/ \E q \in AgentQueries : AnalyzeUserIntent(q)
  \/ \E a \in ActionNames, d \in Contents, p \in ParameterValues, b \in Backends :
       ExecuteAction(a, d, p, b)
  \/ \E q \in AgentQueries, d \in Contents, i \in DocumentIds, b \in Backends :
       ProcessQuery(q, d, i, b)
  \/ Consume

Spec == Init /\ [][Next]_vars

----------------------------------------------------------------------------
(* Two threads inside process_query on one agent.  A step is one statement   *)
(* of the try block; the item assignment on the shared dict is one step: the *)
(* interpreter performs the store of a str key under its lock.  The          *)
(* classifier, the dispatcher and the handlers work on arguments and locals. *)

ConcurrentQueries == {Str(TranslateToFrench), Str(RandomText)}

ConcurrentContents == {Str(<<"a">>), Str(<<"b","b">>)}

ConcurrentIds == {Str(<<"i","d","1">>), Str(<<"i","d","2">>)}

ConcurrentBackends ==
  { [mode |-> "ok", text |-> "The document is a quarterly report."],
    [mode |-> "raises", msg |-> "Could not connect to the endpoint URL"] }

\* lines 689-695: the thread enters process_query with its arguments
Enter(t, user_query, document_content, document_id, backend) ==
  /\ threads[t].pc = "idle"
  /\ threads' = [threads EXCEPT ![t] =
                   [NotStarted EXCEPT
                      !.pc = "cache",
                      !.call = [user_query |-> user_query,
                                document_content |-> document_content,
                                document_id |-> document_id, backend |-> backend]]]
  /\ UNCHANGED <<pc, call, outcome, events, context, model_id, document_memory, previous>>

\* lines 698-699: the guarded write to the shared cache
CacheWrite(t) ==
  /\ threads[t].pc = "cache"
  /\ document_memory' =
       IF Stored(threads[t].call.document_content, threads[t].call.document_id)
       THEN Put(document_memory, threads[t].call.document_id,
                threads[t].call.document_content)
       ELSE document_memory
  /\ threads' = [threads EXCEPT ![t].pc = "classify"]
  /\ UNCHANGED <<pc, call, outcome, events, context, model_id, previous>>

\* line 702: intent = self.analyze_user_intent(user_query)
Classify(t) ==
  /\ threads[t].pc = "classify"
  /\ threads' = [threads EXCEPT ![t].pc = "dispatch",
                                ![t].intent = analyze_user_intent(threads[t].call.user_query)]
  /\ UNCHANGED <<pc, call, outcome, events, context, model_id, document_memory, previous>>

\* line 706: result = self.execute_action(...), the handler and its model call
DispatchAction(t) ==
  /\ threads[t].pc = "dispatch"
  /\ \E ran \in {execute_action(threads[t].intent.value.action,
                                 threads[t].call.document_content,
                                 threads[t].intent.value.parameters,
                                 threads[t].call.backend)} :
        threads' = [threads EXCEPT ![t].pc = "assemble", ![t].result = ran.outcome]
  /\ UNCHANGED <<pc, call, outcome, events, context, model_id, document_memory, previous>>

\* lines 710-716: the envelope is built and returned
Assemble(t) ==
  /\ threads[t].pc = "assemble"
  /\ threads' = [threads EXCEPT
                   ![t].pc = "returned",
                   ![t].envelope = Return(Envelope(threads[t].call.user_query,
                                                   threads[t].intent.value,
                                                   threads[t].result.value))]
  /\ UNCHANGED <<pc, call, outcome, events, context, model_id, document_memory, previous>>

\* the caller joins the two threads and takes their envelopes
Join ==
  /\ \A t \in Threads : threads[t].pc = "returned"
  /\ threads' = [t \in Threads |-> NotStarted]
  /\ UNCHANGED <<pc, call, outcome, events, context, model_id, document_memory, previous>>

ConcurrentNext ==
  \/ \E t \in Threads, q \in ConcurrentQueries, d \in ConcurrentContents,
         i \in ConcurrentIds, b \in ConcurrentBackends : Enter(t, q, d, i, b)
  \/ \E t \in Threads : CacheWrite(t)
  \/ \E t \in Threads : Classify(t)
  \/ \E t \in Threads : DispatchAction(t)
  \/ \E t \in Threads : Assemble(t)
  \/ Join

SpecConcurrent == Init /\ [][ConcurrentNext]_vars

----------------------------------------------------------------------------
(* A caller that classifies queries again and again, between calls of       *)
(* process_query, and keeps an intent to compare the next one with           *)

\* mixed-case spellings, one for each of six rules
MixedCaseQueries ==
  { <<"M","a","i","n"," ","F","i","n","d","i","n","g">>, <<"W","H","A","T">>,
    <<"W","h","o">>, TranslateToFrench, <<"X","Y","Z">>, <<"A","U","T","H","O","R">> }

\* each spelling and its lower-case form
RepeatedQueries == MixedCaseQueries \cup {lower(q) : q \in MixedCaseQueries}

RepeatedContents == {Str(<<"a">>), Str(<<"b","b">>)}

RepeatedIds == {Str(<<"i","d",Digits[k]>>) : k \in 1..MaxIds}

RepeatedNext ==
  \/ \E q \in RepeatedQueries : AnalyzeUserIntent(Str(q))
  \/ \E q \in MixedCaseQueries, d \in RepeatedContents, i \in RepeatedIds :
       ProcessQuery(Str(q), d, i, [mode |-> "ok", text |-> "{}"])
  \/ Remember
  \/ Consume

SpecRepeated == Init /\ [][RepeatedNext]_vars

----------------------------------------------------------------------------
(* The crew orchestrator (src/document_intelligence/crewai_agent_system.py) *)

\* crewai_agent_system.py line 157: simple_keywords
SimpleKeywords ==
  <<<<"s","u","m","m","a","r","i","z","e">>,
    <<"s","u","m","m","a","r","y">>,
    <<"t","r","a","n","s","l","a","t","e">>,
    <<"c","l","a","s","s","i","f","y">>>>

\* crewai_agent_system.py line 158: complex_keywords
ComplexKeywords ==
  <<<<"a","n","a","l","y","z","e">>,
    <<"c","o","m","p","a","r","e">>,
    <<"i","n","s","i","g","h","t","s">>,
    <<"c","o","m","p","r","e","h","e","n","s","i","v","e">>,
    <<"d","e","t","a","i","l","e","d">>>>

\* the length tests read <= 2000 and >= 5000
ComplexityInclusive(user_query, document_content) ==
  LET query_lower == lower(user_query.s)
      doc_length == Len(document_content.s)
  IN IF AnyIn(SimpleKeywords, query_lower) /\ doc_length <= 2000 THEN "simple"
     ELSE IF AnyIn(ComplexKeywords, query_lower) \/ doc_length >= 5000 THEN "complex"
     ELSE "moderate"

\* lines 151-166
_analyze_query_complexity(user_query, document_content) ==
  LET query_lower == lower(user_query.s)
      doc_length == Len(document_content.s)
  IN IF AnyIn(SimpleKeywords, query_lower) /\ doc_length < 2000 THEN "simple"
     ELSE IF AnyIn(ComplexKeywords, query_lower) \/ doc_length > 5000 THEN "complex"
     ELSE "moderate"

\* a caller invokes crew._analyze_query_complexity(user_query, document_content)
AnalyzeQueryComplexity(user_query, document_content) ==
  /\ pc = "idle"
  /\ pc' = "done"
  /\ call' = [op |-> "_analyze_query_complexity", user_query |-> user_query,
              document_content |-> document_content]
  /\ outcome' = Return(_analyze_query_complexity(user_query, document_content))
  /\ events' = <<>>
  /\ UNCHANGED <<context, model_id, document_memory, previous, threads>>

\* a document of n characters
Filled(n) == [i \in 1..n |-> "a"]

\* document lengths on both sides of the two length tests
CrewLengths == {0, 500, 1999, 2000, 2001, 3000, 4999, 5000, 5001}

CrewContents == {Str(Filled(n)) : n \in CrewLengths}

\* the estimator's keywords, upper-case spellings, and words of the pipeline's families
CrewFragments ==
  Range(SimpleKeywords) \cup Range(ComplexKeywords) \cup
  { <<"S","u","m","m","a","r","i","z","e"," ","t","h","i","s">>, <<"A","N","A","L","Y","Z","E">>, <<"e","x","p","l","a","i","n"," ","t","h","i","s">>,
    <<"w","h","o">>, <<"p","e","o","p","l","e">>, <<"o","v","e","r","v","i","e","w">>,
    <<" ","t","o"," ","f","r","e","n","c","h">>, <<" ","i","n"," ","g","e","r","m","a","n">>,
    <<"x","y","z">> }

\* every fragment and every pair of fragments
CrewQueries == CrewFragments \cup {f \o g : f \in CrewFragments, g \in CrewFragments}

\* line 516
SummaryFamilyWords ==
  <<<<"s","u","m","m","a","r","i","z","e">>,
    <<"s","u","m","m","a","r","y">>,
    <<"o","v","e","r","v","i","e","w">>>>

\* line 534
QuestionFamilyWords ==
  <<<<"w","h","o">>,
    <<"w","h","a","t">>,
    <<"w","h","e","n">>,
    <<"w","h","e","r","e">>,
    <<"w","h","y">>,
    <<"h","o","w">>,
    <<"q","u","e","s","t","i","o","n">>>>

\* line 552
EntityFamilyWords ==
  <<<<"p","e","r","s","o","n">>,
    <<"p","e","o","p","l","e">>,
    <<"o","r","g","a","n","i","z","a","t","i","o","n">>,
    <<"c","o","m","p","a","n","y">>,
    <<"d","a","t","e">>,
    <<"l","o","c","a","t","i","o","n">>,
    <<"e","n","t","i","t","y">>>>

\* line 572
TranslationFamilyWords ==
  <<<<"t","r","a","n","s","l","a","t","e">>,
    <<"s","p","a","n","i","s","h">>,
    <<"f","r","e","n","c","h">>,
    <<"g","e","r","m","a","n">>,
    <<"c","h","i","n","e","s","e">>,
    <<"j","a","p","a","n","e","s","e">>>>

\* line 514
ConciseWords ==
  <<<<"c","o","n","c","i","s","e">>,
    <<"s","h","o","r","t">>,
    <<"b","r","i","e","f">>,
    <<"s","u","m","m","a","r","y">>,
    <<"s","u","m","m","a","r","i","z","e">>,
    <<"i","n"," ","a"," ","f","e","w"," ","s","e","n","t","e","n","c","e","s">>,
    <<"n","o","t"," ","t","o","o"," ","l","o","n","g">>>>

\* lines 500-506: language_map, in insertion order
LanguageMap ==
  << [key |-> <<"f","r","e","n","c","h">>, val |-> "French"],
     [key |-> <<"s","p","a","n","i","s","h">>, val |-> "Spanish"],
     [key |-> <<"g","e","r","m","a","n">>, val |-> "German"],
     [key |-> <<"c","h","i","n","e","s","e">>, val |-> "Chinese"],
     [key |-> <<"j","a","p","a","n","e","s","e">>, val |-> "Japanese"] >>

\* lines 507-511: the first language of the map that the query asks for with
\* "in <language>" or "to <language>"; "none" stands for None
RequestedLanguage(query_lower) ==
  LET asked == {k \in DOMAIN LanguageMap :
                  \/ In(<<"i","n"," ">> \o LanguageMap[k].key, query_lower)
                  \/ In(<<"t","o"," ">> \o LanguageMap[k].key, query_lower)}
  IN IF asked = {} THEN "none"
     ELSE LanguageMap[CHOOSE k \in asked : \A j \in asked : k <= j].val

\* a Crew: its tasks, each named by the agent that performs it, in order
CrewOf(tasks) == [tasks |-> tasks]

\* lines 168-240: the create_simple_*_crew factories, one task each
create_simple_crew(agent) == CrewOf(<<agent>>)

\* lines 242-390: the create_*_crew factories, the analyzer's task and then the specialist's
create_crew(agent) == CrewOf(<<"analyzer", agent>>)

\* lines 392-482: create_comprehensive_analysis_crew
create_comprehensive_analysis_crew ==
  CrewOf(<<"classifier", "sentiment_analyzer", "action_extractor", "analyzer">>)

\* crew.kickoff(): the tasks run in order; llm.fails_at is the task at which the
\* language model fails (0: at none)
kickoff(crew, llm) ==
  IF llm.fails_at \in DOMAIN crew.tasks
  THEN [outcome |-> Raise("Exception", llm.msg),
        stages |-> SubSeq(crew.tasks, 1, llm.fails_at)]
  ELSE [outcome |-> Return(llm.text), stages |-> crew.tasks]

\* every family runs the two-stage crew
PipelineAlwaysTwoStages(family, complexity) == create_crew(family.agent)

\* lines 517-524, 535-542, 553-562: the single-stage crew for the simple tier,
\* the two-stage crew otherwise
Pipeline(family, complexity) ==
  IF complexity = "simple" THEN create_simple_crew(family.agent)
  ELSE create_crew(family.agent)

\* agents_used of a family's branch
AgentsUsed(family, complexity) ==
  IF complexity = "simple" THEN <<family.role>>
  ELSE <<"Document Analysis Coordinator", family.role>>

SummarizationFamily ==
  [crew_type |-> "summarization", agent |-> "summarizer",
   role |-> "Content Summarization Specialist"]

QuestionFamily ==
  [crew_type |-> "question_answering", agent |-> "question_answerer",
   role |-> "Document Q&A Specialist"]

EntityFamily ==
  [crew_type |-> "entity_extraction", agent |-> "entity_extractor",
   role |-> "Entity Extraction Specialist"]

\* the result of one branch: what process_query returns, and the stages that ran
CrewRan(run, returned) ==
  IF run.outcome.kind = "raise" THEN [outcome |-> run.outcome, stages |-> run.stages]
  ELSE [outcome |-> Return(returned), stages |-> run.stages]

\* lines 516-570: the branch of a family that has a simple and a full crew
FamilyBranch(family, user_query, complexity, llm, extra) ==
  LET run == kickoff(Pipeline(family, complexity), llm)
  IN CrewRan(run,
             [user_query |-> user_query, crew_type |-> family.crew_type,
              complexity |-> complexity, result |-> run.outcome.value,
              agents_used |-> AgentsUsed(family, complexity), extra |-> extra])

\* lines 572-613: the translation branch
TranslationBranch(user_query, query_lower, llm) ==
  LET run == kickoff(CrewOf(<<"translator">>), llm)
  IN CrewRan(run,
             [user_query |-> user_query, crew_type |-> "translation",
              complexity |-> "simple", result |-> run.outcome.value,
              agents_used |-> <<"Document Translation Specialist">>,
              extra |-> [target_language |-> TargetLang(query_lower)]])

\* lines 615-627: the final else
ComprehensiveBranch(user_query, llm) ==
  LET run == kickoff(create_comprehensive_analysis_crew, llm)
  IN CrewRan(run,
             [user_query |-> user_query, crew_type |-> "comprehensive_analysis",
              complexity |-> "complex", result |-> run.outcome.value,
              agents_used |-> <<"Document Classification Specialist",
                                "Sentiment Analysis Specialist",
                                "Action Item Extraction Specialist",
                                "Document Analysis Coordinator">>,
              extra |-> EmptyDict])

\* lines 488-627: the try block of DocumentIntelligenceCrew.process_query
CrewProcessQueryBody(user_query, document_content, llm) ==
  LET complexity == _analyze_query_complexity(user_query, document_content)
      query_lower == lower(user_query.s)
      requested_language == RequestedLanguage(query_lower)
      concise_request == AnyIn(ConciseWords, query_lower)
  IN IF AnyIn(SummaryFamilyWords, query_lower)
     THEN FamilyBranch(SummarizationFamily, user_query, complexity, llm,
                       [summary_language |-> IF requested_language = "none"
                                             THEN "English" ELSE requested_language])
     ELSE IF AnyIn(QuestionFamilyWords, query_lower)
     THEN FamilyBranch(QuestionFamily, user_query, complexity, llm,
                       [concise |-> concise_request])
     ELSE IF AnyIn(EntityFamilyWords, query_lower)
     THEN FamilyBranch(EntityFamily, user_query, complexity, llm, EmptyDict)
     ELSE IF AnyIn(TranslationFamilyWords, query_lower)
     THEN TranslationBranch(user_query, query_lower, llm)
     ELSE ComprehensiveBranch(user_query, llm)

\* DocumentIntelligenceCrew.process_query: the try block and, lines 629-637, the except clause
crew_process_query(user_query, document_content, llm) ==
  LET ran == CrewProcessQueryBody(user_query, document_content, llm)
  IN IF ran.outcome.kind = "raise"
     THEN [outcome |-> Return([user_query |-> user_query, crew_type |-> "error",
                               complexity |-> "unknown",
                               result |-> "Processing error: " \o ran.outcome.msg,
                               agents_used |-> <<>>, extra |-> EmptyDict]),
           stages |-> ran.stages]
     ELSE ran

\* a caller invokes crew.process_query(user_query, document_content)
CrewProcessQuery(user_query, document_content, llm) ==
  /\ pc = "idle"
  /\ pc' = "done"
  /\ call' = [op |-> "crew.process_query", user_query |-> user_query,
              document_content |-> document_content, llm |-> llm]
  /\ \E ran \in {crew_process_query(user_query, document_content, llm)} :
        /\ outcome' = ran.outcome
        /\ events' = ran.stages
  /\ UNCHANGED <<context, model_id, document_memory, previous, threads>>

\* what the language model does during kickoff
CrewModels ==
  { [fails_at |-> 0, text |-> "The document is a quarterly report.", msg |-> ""],
    [fails_at |-> 1, text |-> "", msg |-> "litellm.APIConnectionError"],
    [fails_at |-> 2, text |-> "", msg |-> "litellm.APIConnectionError"] }

CrewNext ==
  \/ \E q \in CrewQueries, d \in CrewContents : AnalyzeQueryComplexity(Str(q), d)
  \/ \E q \in CrewQueries, d \in CrewContents, m \in CrewModels :
       CrewProcessQuery(Str(q), d, m)
  \/ Consume

SpecCrew == Init /\ [][CrewNext]_vars

----------------------------------------------------------------------------
(* Long documents: a caller dispatches one action on two documents and keeps *)
(* the instructions that were sent to the model                             *)

\* n characters "a" and then the text tail
Padded(n, tail) == Str(Filled(n) \o tail)

\* documents that end just before, at and just after the handlers' slice ends,
\* in pairs that differ in their last character only
LongContents ==
  {Str(<<"a">>)} \cup
  {Padded(n, tail) : n \in {3999, 4000, 5999, 6000, 7999, 8000},
                     tail \in {<<"x">>, <<"y">>}}

\* execute_action on document_content and then on other_content
ExecuteActionTwice(action, document_content, other_content, parameters, backend) ==
  /\ pc = "idle"
  /\ pc' = "done"
  /\ call' = [op |-> "execute_action twice", action |-> action,
              document_content |-> document_content, other_content |-> other_content,
              parameters |-> parameters, backend |-> backend]
  /\ \E ran \in {execute_action(action, document_content, parameters, backend)},
        other \in {execute_action(action, other_content, parameters, backend)} :
        /\ outcome' = [kind |-> "return", value |-> ran.outcome.value,
                       other |-> other.outcome.value,
                       prompts |-> ran.prompts, other_prompts |-> other.prompts]
        /\ events' = <<"execute_action">> \o HandlerSteps(ran)
                       \o <<"execute_action">> \o HandlerSteps(other)
  /\ UNCHANGED <<context, model_id, document_memory, previous, threads>>

TruncationNext ==
  \/ \E a \in ActionKind, d \in LongContents, o \in LongContents :
       ExecuteActionTwice(a, d, o, EmptyDict,
                          [mode |-> "ok", text |-> "The document is a quarterly report."])
  \/ Consume

SpecTruncation == Init /\ [][TruncationNext]_vars

----------------------------------------------------------------------------
(* The summarizer function: src/summarizer/app.py and its DocumentProcessor *)

\* event.get(key, "")
EventGet(event, key) == IF key \in DOMAIN event THEN event[key] ELSE Str(<<>>)

Whitespace == {" ", "\n", "\t"}

\* str.strip()
strip(s) ==
  IF \A i \in DOMAIN s : s[i] \in Whitespace THEN <<>>
  ELSE LET first == CHOOSE i \in DOMAIN s :
                      s[i] \notin Whitespace /\ \A j \in 1..(i - 1) : s[j] \in Whitespace
           last == CHOOSE i \in DOMAIN s :
                     s[i] \notin Whitespace /\ \A j \in (i + 1)..Len(s) : s[j] \in Whitespace
       IN SubSeq(s, first, last)

Base64Alphabet ==
  {UpperCase[i] : i \in DOMAIN UpperCase} \cup {LowerCase[i] : i \in DOMAIN LowerCase}
  \cup {"0","1","2","3","4","5","6","7","8","9","+","/","="}

IsBase64Char(c) == c \in Base64Alphabet

\* the text held by the files of the model, by their base64 encoding
FileTexts ==
  <<[encoded |-> <<"a","G","k","=">>, decoded |-> <<"h","i">>],
    [encoded |-> <<"I","G","h","p">>, decoded |-> <<" ","h","i">>],
    [encoded |-> <<"I","C","A","=">>, decoded |-> <<" "," ">>]>>

\* base64.b64decode(file_content): characters outside the alphabet are
\* discarded, and what is left must come in groups of four
b64decode(file_content) ==
  LET data == SelectSeq(file_content, IsBase64Char)
  IN IF Len(data) % 4 # 0 THEN Raise("binascii.Error", "Incorrect padding")
     ELSE IF \E k \in DOMAIN FileTexts : FileTexts[k].encoded = data
     THEN Return((CHOOSE f \in Range(FileTexts) : f.encoded = data).decoded)
     ELSE Return(<<>>)

supported_formats ==
  <<[file_type |-> "pdf", extensions |-> <<<<".","p","d","f">>>>],
    [file_type |-> "image", extensions |-> <<<<".","p","n","g">>, <<".","j","p","g">>, <<".","j","p","e","g">>, <<".","g","i","f">>, <<".","b","m","p">>, <<".","t","i","f","f">>, <<".","w","e","b","p">>>>],
    [file_type |-> "word", extensions |-> <<<<".","d","o","c","x">>, <<".","d","o","c">>>>],
    [file_type |-> "excel", extensions |-> <<<<".","x","l","s","x">>, <<".","x","l","s">>>>],
    [file_type |-> "csv", extensions |-> <<<<".","c","s","v">>>>],
    [file_type |-> "text", extensions |-> <<<<".","t","x","t">>, <<".","m","d">>, <<".","r","t","f">>>>]>>

\* os.path.splitext(filename.lower())[1]: from the last dot on, unless only
\* dots come before it
get_file_extension(filename) ==
  LET name == lower(filename)
      dots == {i \in DOMAIN name : name[i] = "."}
  IN IF dots = {} THEN <<>>
     ELSE LET last == CHOOSE i \in dots : \A j \in dots : j <= i
          IN IF \A j \in 1..(last - 1) : name[j] = "." THEN <<>>
             ELSE SubSeq(name, last, Len(name))

is_supported_format(filename) ==
  \E k \in DOMAIN supported_formats :
    \E e \in DOMAIN supported_formats[k].extensions :
      supported_formats[k].extensions[e] = get_file_extension(filename)

get_file_type(filename) ==
  IF is_supported_format(filename)
  THEN LET k == CHOOSE i \in DOMAIN supported_formats :
                  /\ \E e \in DOMAIN supported_formats[i].extensions :
                       supported_formats[i].extensions[e] = get_file_extension(filename)
                  /\ \A j \in 1..(i - 1) :
                       \A e \in DOMAIN supported_formats[j].extensions :
                         supported_formats[j].extensions[e] # get_file_extension(filename)
       IN supported_formats[k].file_type
  ELSE "unknown"

\* the extract_text_from_* methods on the files of the model, which hold plain
\* text: latin-1 decodes every byte string, the pdf, image, word and excel
\* readers reject a file that is not of their format, and a table of one line
\* has a header and no rows
extract_text(file_type, file_bytes) ==
  IF file_type = "text" THEN Return(strip(file_bytes))
  ELSE IF file_type = "csv"
  THEN IF file_bytes = <<>>
       THEN Raise("Exception", "Failed to extract text from CSV file")
       ELSE Return(<<"E","m","p","t","y"," ","D","a","t","a","F","r","a","m","e">>)
  ELSE Raise("Exception", "Failed to extract text from file")

\* DocumentProcessor.process_file
process_file(file_bytes, filename) ==
  IF ~is_supported_format(filename) THEN Raise("Exception", "Unsupported file format")
  ELSE LET file_type == get_file_type(filename)
           text == extract_text(file_type, file_bytes)
       IN IF text.kind = "raise" THEN Raise("Exception", "Error processing file")
          ELSE IF strip(text.value) = <<>>
          THEN IF file_type = "image"
               THEN Return([text |-> <<"[","I","m","a","g","e","]">>, file_type |-> file_type])
               ELSE Raise("Exception", "Error processing file")
          ELSE Return([text |-> text.value, file_type |-> file_type])

NoSummary == <<"N","o"," ","s","u","m","m","a","r","y"," ","g","e","n","e","r","a","t","e","d">>

\* boto3.client and invoke_model followed by json.loads of the response body
invoke_model(model) ==
  IF model.mode = "no client" THEN Raise("NoRegionError", "You must specify a region.")
  ELSE IF model.mode = "throttled" THEN Raise("ClientError", "ThrottlingException")
  ELSE Return(model.result)

\* json.dumps of a dict of strings and numbers
json_dumps(obj) == [json |-> obj]

\* the statements of lambda_handler inside its try
SummarizerBody(event, model) ==
  LET input_text == EventGet(event, "input")
      file_content == EventGet(event, "file_content")
      filename == EventGet(event, "filename")
      file_bytes == b64decode(file_content.s)
      processed == process_file(file_bytes.value, filename.s)
      from_file == Truthy(file_content) /\ Truthy(filename)
      text_to_summarize == IF from_file THEN processed.value.text ELSE input_text.s
      source_info == IF from_file THEN "File" ELSE "Direct text input"
      response == invoke_model(model)
      result == response.value
      summary == IF "content" \in DOMAIN result /\ Len(result.content) > 0
                 THEN IF "text" \in DOMAIN result.content[1]
                      THEN result.content[1].text ELSE NoSummary
                 ELSE NoSummary
  IN IF from_file /\ file_bytes.kind = "raise"
     THEN [outcome |-> Return([statusCode |-> 400,
                               body |-> json_dumps([error |-> "Error processing file"])]),
           steps |-> <<"b64decode">>]
     ELSE IF from_file /\ processed.kind = "raise"
     THEN [outcome |-> Return([statusCode |-> 400,
                               body |-> json_dumps([error |-> "Error processing file"])]),
           steps |-> <<"b64decode", "process_file">>]
     ELSE IF ~from_file /\ ~Truthy(input_text)
     THEN [outcome |-> Return([statusCode |-> 400,
                               body |-> json_dumps([error |-> "No input text or file provided"])]),
           steps |-> <<>>]
     ELSE LET before == IF from_file THEN <<"b64decode", "process_file">> ELSE <<>>
          IN IF response.kind = "raise"
             THEN [outcome |-> response, steps |-> before \o <<"invoke_model">>]
             ELSE [outcome |-> Return([statusCode |-> 200,
                                       body |-> json_dumps(
                                         [summary |-> strip(summary),
                                          source |-> source_info,
                                          input_length |-> Len(text_to_summarize),
                                          summary_length |-> Len(summary)])]),
                   steps |-> before \o <<"invoke_model">>]

\* the summarizer's handler summarizes the first 20000 characters of the text
SummarizerTruncates(event, model) ==
  LET body == SummarizerBody([k \in DOMAIN event |->
                                IF k = "input" THEN Str(Slice(event[k].s, 20000))
                                ELSE event[k]], model)
  IN IF body.outcome.kind = "raise"
     THEN [outcome |-> Return([statusCode |-> 500,
                               body |-> json_dumps([error |-> "Error processing request"])]),
           steps |-> body.steps]
     ELSE body

\* lambda_handler of src/summarizer/app.py
summarizer_lambda_handler(event, model) ==
  LET body == SummarizerBody(event, model)
  IN IF body.outcome.kind = "raise"
     THEN [outcome |-> Return([statusCode |-> 500,
                               body |-> json_dumps([error |-> "Error processing request"])]),
           steps |-> body.steps]
     ELSE body

SummarizerLambdaHandler(event, model) ==
  /\ pc = "idle"
  /\ pc' = "done"
  /\ call' = [op |-> "summarizer.lambda_handler", event |-> event, model |-> model]
  /\ \E ran \in {summarizer_lambda_handler(event, model)} :
        /\ outcome' = ran.outcome
        /\ events' = ran.steps
  /\ UNCHANGED <<context, model_id, document_memory, previous, threads>>

\* the large input of test_large_input: 25,000 characters
LargeInput == Str([i \in 1..25000 |-> IF i % 25 = 0 THEN " " ELSE "a"])

SummarizerInputs == {Str(<<>>), Str(<<"h","i">>), LargeInput}

SummarizerFiles ==
  {Str(<<>>), Str(<<"a","G","k","=">>), Str(<<"I","G","h","p">>),
   Str(<<"I","C","A","=">>), Str(<<"a","G","k">>)}

SummarizerFilenames ==
  {Str(<<>>), Str(<<"n",".","t","x","t">>), Str(<<"N",".","T","X","T">>),
   Str(<<"n",".","p","d","f">>), Str(<<"n",".","e","x","e">>), Str(<<".","t","x","t">>)}

EventKeys == {"input", "file_content", "filename"}

\* the event that has the keys present, with these values
EventOf(present, input_text, file_content, filename) ==
  [k \in present |-> IF k = "input" THEN input_text
                     ELSE IF k = "file_content" THEN file_content ELSE filename]

SummarizerEvents ==
  {EventOf(present, i, f, n) : present \in SUBSET EventKeys, i \in SummarizerInputs,
                               f \in SummarizerFiles, n \in SummarizerFilenames}

SummarizerModels ==
  {[mode |-> "no client"], [mode |-> "throttled"],
   [mode |-> "answers",
    result |-> [content |-> <<[type |-> "text", text |-> <<" ","A"," ","b","."," ">>]>>]],
   [mode |-> "answers", result |-> [content |-> <<[type |-> "tool_use"]>>]],
   [mode |-> "answers", result |-> [content |-> <<>>]],
   [mode |-> "answers", result |-> [message |-> "error"]]}

SummarizerNext ==
  \/ \E event \in SummarizerEvents, model \in SummarizerModels :
       SummarizerLambdaHandler(event, model)
  \/ Consume

SpecSummarizer == Init /\ [][SummarizerNext]_vars

----------------------------------------------------------------------------
(* The document intelligence function: src/document_intelligence/app.py *)

\* an error result answers with its error text
MainResponseOrError(action_result) ==
  IF "result" \in DOMAIN action_result THEN action_result.result
  ELSE Get(action_result, "error", "No response generated")

\* lines 58-66: the nested action_result.get calls
main_response(action_result) ==
  Get(action_result, "result",
  Get(action_result, "answer",
  Get(action_result, "insights",
  Get(action_result, "classification",
  Get(action_result, "translation",
  Get(action_result, "sentiment_analysis",
  Get(action_result, "action_items",
  Get(action_result, "entities",
  Get(action_result, "analysis", "No response generated")))))))))

\* lines 56-79: the response made from what process_query returned
Respond(user_query, document_content, source_info, result, before) ==
  LET input_length == len(document_content)
  IN IF input_length.kind = "raise"
     THEN [outcome |-> input_length, steps |-> before \o <<"process_query">>]
     ELSE [outcome |-> Return([statusCode |-> 200,
                               body |-> json_dumps(
                                 [agent_response |-> main_response(result.action_result),
                                  source |-> source_info,
                                  user_query |-> user_query,
                                  agent_action |-> result.intent_analysis.action,
                                  confidence |-> result.intent_analysis.confidence,
                                  reasoning |-> result.agent_reasoning,
                                  input_length |-> input_length.value])]),
           steps |-> before \o <<"process_query">>]

\* the statements of lambda_handler inside its try; the agent is a new one
LambdaBody(event, backend) ==
  LET input_text == Get(event, "input", Str(<<>>))
      file_content == Get(event, "file_content", Str(<<>>))
      filename == Get(event, "filename", Str(<<>>))
      user_query == Get(event, "user_query", Str(Suggestions[8]))
      file_bytes == b64decode(file_content.s)
      processed == process_file(file_bytes.value, filename.s)
      from_file == Truthy(file_content) /\ Truthy(filename)
      document_content == IF from_file THEN Str(processed.value.text) ELSE input_text
      source_info == IF from_file THEN "File" ELSE "Direct text input"
      document_id == IF Truthy(filename) THEN filename
                     ELSE Str(<<"t","e","x","t","_","i","n","p","u","t">>)
  IN IF from_file /\ file_bytes.kind = "raise"
     THEN [outcome |-> Return([statusCode |-> 400,
                               body |-> json_dumps([error |-> "Error processing file"])]),
           steps |-> <<"b64decode">>]
     ELSE IF from_file /\ processed.kind = "raise"
     THEN [outcome |-> Return([statusCode |-> 400,
                               body |-> json_dumps([error |-> "Error processing file"])]),
           steps |-> <<"b64decode", "process_file">>]
     ELSE IF ~from_file /\ ~Truthy(input_text)
     THEN [outcome |-> Return([statusCode |-> 400,
                               body |-> json_dumps([error |-> "No input text or file provided"])]),
           steps |-> <<>>]
     ELSE CHOOSE response \in
            {Respond(user_query, document_content, source_info, did.outcome.value,
                     IF from_file THEN <<"b64decode", "process_file">> ELSE <<>>) :
               did \in {process_query(user_query, document_content, document_id,
                                      EmptyDict, backend)}} : TRUE

\* lines 81-85: the except clause of lambda_handler
ExceptClause(body) ==
  IF body.outcome.kind = "raise"
  THEN [outcome |-> Return([statusCode |-> 500,
                            body |-> json_dumps([error |-> "Error processing request"])]),
        steps |-> body.steps]
  ELSE body

\* lambda_handler of src/document_intelligence/app.py
lambda_handler(event, backend) == ExceptClause(LambdaBody(event, backend))

LambdaHandler(event, backend) ==
  /\ pc = "idle"
  /\ pc' = "done"
  /\ call' = [op |-> "lambda_handler", event |-> event, backend |-> backend]
  /\ \E ran \in {lambda_handler(event, backend)} :
        /\ outcome' = ran.outcome
        /\ events' = ran.steps
  /\ UNCHANGED <<context, model_id, document_memory, previous, threads>>

\* an input that is a JSON number: true, and without a length
NumberInput == [t |-> "int"]

LambdaInputs == {Str(<<>>), Str(<<"a">>), None, DictDocument, NumberInput}

LambdaFiles == {Str(<<>>), Str(<<"a","G","k","=">>), Str(<<"a","G","k">>)}

LambdaFilenames == {Str(<<>>), Str(<<"n",".","t","x","t">>), Str(<<"n",".","e","x","e">>)}

\* events with and without a user_query
LambdaEvents ==
  {[input |-> i, file_content |-> f, filename |-> n] :
     i \in LambdaInputs, f \in LambdaFiles, n \in LambdaFilenames}
  \cup {[input |-> i, file_content |-> f, filename |-> n, user_query |-> q] :
          i \in LambdaInputs, f \in LambdaFiles, n \in LambdaFilenames, q \in AgentQueries}

LambdaNext ==
  \/ \E event \in LambdaEvents, backend \in Backends : LambdaHandler(event, backend)
  \/ Consume

SpecLambda == Init /\ [][LambdaNext]_vars

----------------------------------------------------------------------------
(* The HTTP service: src/document_intelligence/api_server.py *)

MAX_FILE_SIZE == 10 * 1024 * 1024

MAX_TEXT_LENGTH == 10000

\* raise HTTPException(status_code=..., detail=...)
HTTPException(status_code, detail) ==
  [kind |-> "raise", exc |-> "HTTPException", status_code |-> status_code, msg |-> detail]

\* a bytes value of `size` bytes; data is the text a reader finds in it
Bytes(size, data) == [t |-> "bytes", size |-> size, data |-> data]

\* the truth value of an Optional[str] or Optional[bytes]
NotEmpty(v) ==
  IF v = None THEN FALSE
  ELSE IF v.t = "bytes" THEN v.size > 0
  ELSE v.s # <<>>

\* validate_file_size(len(file_content))
validate_file_size(file_size) ==
  IF file_size > MAX_FILE_SIZE THEN HTTPException(413, "File size exceeds maximum allowed size")
  ELSE IF file_size = 0 THEN HTTPException(400, "Uploaded file is empty")
  ELSE Return(None)

\* validate_text_length(input_text)
validate_text_length(text) ==
  IF NotEmpty(text) /\ Len(text.s) > MAX_TEXT_LENGTH
  THEN HTTPException(413, "Text length exceeds maximum allowed length")
  ELSE Return(None)

\* lines 186-214: the response made from what the crew returned
ServiceResponse(user_query, document_content, source_info, ran, before) ==
  IF ran.outcome.kind = "raise"
  THEN [outcome |-> ran.outcome, steps |-> before \o <<"crew.process_query">>]
  ELSE [outcome |-> Return([status |-> "success",
                            agent_response |-> ran.outcome.value.result,
                            source |-> source_info,
                            user_query |-> user_query.s,
                            agent_info |-> [crew_type |-> ran.outcome.value.crew_type,
                                            complexity |-> ran.outcome.value.complexity,
                                            agents_used |-> ran.outcome.value.agents_used],
                            input_length |-> Len(document_content.s)]),
        steps |-> before \o <<"crew.process_query">>]

\* process_document_service; components says whether initialize_components
\* can build the document processor and the crew
process_document_service(input_text, file_content, filename, user_query, components, llm) ==
  LET from_file == NotEmpty(file_content) /\ NotEmpty(filename)
      text_checked == validate_text_length(input_text)
      size_checked == validate_file_size(file_content.size)
      processed == process_file(file_content.data, filename.s)
      document_content == IF from_file THEN Str(processed.value.text) ELSE input_text
      source_info == IF from_file THEN "File" ELSE "Direct text input"
      before == IF from_file THEN <<"process_file">> ELSE <<>>
  IN IF components # "ready"
     THEN [outcome |-> Raise("NameError", "name 'DocumentProcessor' is not defined"),
           steps |-> <<"initialize_components">>]
     ELSE IF ~NotEmpty(user_query)
     THEN [outcome |-> HTTPException(400, "user_query is required"), steps |-> <<>>]
     ELSE IF ~NotEmpty(input_text) /\ ~from_file
     THEN [outcome |-> HTTPException(400, "Either input_text or (file_content + filename) must be provided"),
           steps |-> <<>>]
     ELSE IF NotEmpty(input_text) /\ text_checked.kind = "raise"
     THEN [outcome |-> text_checked, steps |-> <<>>]
     ELSE IF NotEmpty(file_content) /\ size_checked.kind = "raise"
     THEN [outcome |-> size_checked, steps |-> <<>>]
     ELSE IF from_file /\ processed.kind = "raise"
     THEN [outcome |-> HTTPException(400, "Invalid file content"), steps |-> before]
     ELSE IF ~NotEmpty(document_content)
     THEN [outcome |-> HTTPException(400, "No processable content found in request"),
           steps |-> before]
     ELSE ServiceResponse(user_query, document_content, source_info,
                          crew_process_query(user_query, document_content, llm), before)

\* what FastAPI answers: the response model with 200, or the status and detail
\* of the HTTPException
Answer(served) ==
  IF served.outcome.kind = "return"
  THEN [outcome |-> Return([status_code |-> 200, body |-> served.outcome.value]),
        steps |-> served.steps]
  ELSE [outcome |-> Return([status_code |-> served.outcome.status_code,
                            detail |-> served.outcome.msg]),
        steps |-> served.steps]

\* lines 376-380: an HTTPException passes, any other exception becomes a 500
ExceptHTTPException(served) ==
  IF served.outcome.kind = "raise" /\ served.outcome.exc # "HTTPException"
  THEN [outcome |-> HTTPException(500, "Internal processing error"), steps |-> served.steps]
  ELSE served

\* lines 398-400: every exception becomes a 500
ExceptException(served) ==
  IF served.outcome.kind = "raise"
  THEN [outcome |-> HTTPException(500, "File upload error"), steps |-> served.steps]
  ELSE served

\* the files of the requests, by their base64 encoding; the last one stands for
\* a file of one byte more than MAX_FILE_SIZE
EncodedFiles ==
  <<[encoded |-> <<"a","G","k","=">>, file |-> Bytes(2, <<"h","i">>)],
    [encoded |-> <<"I","C","A","=">>, file |-> Bytes(2, <<" "," ">>)],
    [encoded |-> <<"A","A","A","A">>, file |-> Bytes(MAX_FILE_SIZE + 1, <<"a">>)]>>

\* base64.b64decode(request.file_content)
decode_file(file_content) ==
  LET data == SelectSeq(file_content, IsBase64Char)
  IN IF Len(data) % 4 # 0 THEN Raise("binascii.Error", "Incorrect padding")
     ELSE IF \E k \in DOMAIN EncodedFiles : EncodedFiles[k].encoded = data
     THEN Return((CHOOSE f \in Range(EncodedFiles) : f.encoded = data).file)
     ELSE Return(Bytes(0, <<>>))

\* the request model: user_query has between 1 and 1000 characters
ValidRequest(request) == Len(request.user_query.s) \in 1..1000

\* POST /api/process
process_document(request, components, llm) ==
  LET decoded == decode_file(request.file_content.s)
  IN IF ~ValidRequest(request)
     THEN [outcome |-> Return([status_code |-> 422, detail |-> "validation error"]),
           steps |-> <<>>]
     ELSE IF NotEmpty(request.file_content) /\ decoded.kind = "raise"
     THEN Answer([outcome |-> HTTPException(500, "Internal processing error"),
                  steps |-> <<"b64decode">>])
     ELSE Answer(ExceptHTTPException(
            process_document_service(request.input_text,
                                     IF NotEmpty(request.file_content)
                                     THEN decoded.value ELSE None,
                                     request.filename, request.user_query,
                                     components, llm)))

\* the upload endpoint lets an HTTPException pass
UploadKeepsStatus(file, query, components, llm) ==
  Answer(ExceptHTTPException(
    process_document_service(None, file.content, file.filename, query, components, llm)))

\* POST /api/upload
upload_file(file, query, components, llm) ==
  Answer(ExceptException(
    process_document_service(None, file.content, file.filename, query, components, llm)))

ProcessDocumentService(input_text, file_content, filename, user_query, components, llm) ==
  /\ pc = "idle"
  /\ pc' = "done"
  /\ call' = [op |-> "process_document_service", input_text |-> input_text,
              file_content |-> file_content, filename |-> filename,
              user_query |-> user_query, components |-> components, llm |-> llm]
  /\ \E served \in {process_document_service(input_text, file_content, filename,
                                             user_query, components, llm)} :
        /\ outcome' = served.outcome
        /\ events' = served.steps
  /\ UNCHANGED <<context, model_id, document_memory, previous, threads>>

ProcessDocument(request, components, llm) ==
  /\ pc = "idle"
  /\ pc' = "done"
  /\ call' = [op |-> "/api/process", request |-> request,
              components |-> components, llm |-> llm]
  /\ \E answered \in {process_document(request, components, llm)} :
        /\ outcome' = answered.outcome
        /\ events' = answered.steps
  /\ UNCHANGED <<context, model_id, document_memory, previous, threads>>

UploadFile(file, query, components, llm) ==
  /\ pc = "idle"
  /\ pc' = "done"
  /\ call' = [op |-> "/api/upload", file |-> file, query |-> query,
              components |-> components, llm |-> llm]
  /\ \E answered \in {upload_file(file, query, components, llm)} :
        /\ outcome' = answered.outcome
        /\ events' = answered.steps
  /\ UNCHANGED <<context, model_id, document_memory, previous, threads>>

ApiTexts ==
  {None, Str(<<>>), Str(<<"a">>), Str(Filled(MAX_TEXT_LENGTH)),
   Str(Filled(MAX_TEXT_LENGTH + 1))}

ApiFiles ==
  {None, Bytes(0, <<>>), Bytes(2, <<"h","i">>), Bytes(2, <<" "," ">>),
   Bytes(MAX_FILE_SIZE, <<"a">>), Bytes(MAX_FILE_SIZE + 1, <<"a">>)}

ApiEncodedFiles ==
  {None, Str(<<>>), Str(<<"a","G","k","=">>), Str(<<"I","C","A","=">>),
   Str(<<"A","A","A","A">>), Str(<<"a","G","k">>)}

ApiFilenames == {None, Str(<<"n",".","t","x","t">>), Str(<<"n",".","e","x","e">>)}

ApiQueries ==
  {Str(<<>>), Str(<<"S","u","m","m","a","r","i","z","e"," ","t","h","i","s">>),
   Str(<<"x","y","z">>)}

Components == {"ready", "unavailable"}

ApiModels == {m \in CrewModels : m.fails_at < 2}

ApiNext ==
  \/ \E i \in ApiTexts, f \in ApiFiles, n \in ApiFilenames, q \in ApiQueries,
        c \in Components, m \in ApiModels :
       ProcessDocumentService(i, f, n, q, c, m)
  \/ \E i \in ApiTexts, f \in ApiEncodedFiles, n \in ApiFilenames, q \in ApiQueries,
        c \in Components, m \in ApiModels :
       ProcessDocument([input_text |-> i, file_content |-> f, filename |-> n,
                        user_query |-> q], c, m)
  \/ \E f \in ApiFiles \ {None}, n \in ApiFilenames, q \in ApiQueries,
        c \in Components, m \in ApiModels :
       UploadFile([filename |-> n, content |-> f], q, c, m)
  \/ Consume

SpecApi == Init /\ [][ApiNext]_vars

----------------------------------------------------------------------------
(* The rule table of the specification, section 4.1 *)

\* the action of each rule, 1..15
RuleAction ==
  <<"answer_question", "answer_question", "answer_question", "extract_entities",
    "extract_entities", "extract_entities", "extract_action_items", "translate",
    "classify", "extract_insights", "analyze_sentiment", "compare_documents",
    "summarize", "answer_question", "ask_clarification">>

NumRules == Len(RuleAction)

\* rule k's keyword predicate on the lowercased query, k < NumRules
RuleHolds(k, ql) ==
  CASE k = 1 -> AnyIn(ConclusionWords, ql)
    [] k = 2 -> AnyIn(AuthorWords, ql)
    [] k = 3 -> AnyIn(FindingsWords, ql)
    [] k = 4 -> AnyIn(PeopleWords, ql) /\ ~In(Author, ql)
    [] k = 5 -> In(Who, ql) /\ ~In(Author, ql)
    [] k = 6 -> AnyIn(OrganizationWords, ql)
    [] k = 7 -> AnyIn(ActionItemWords, ql)
    [] k = 8 -> AnyIn(TranslateWords, ql)
    [] k = 9 -> AnyIn(ClassifyWords, ql)
    [] k = 10 -> AnyIn(InsightWords, ql)
    [] k = 11 -> AnyIn(SentimentWords, ql)
    [] k = 12 -> AnyIn(CompareWords, ql)
    [] k = 13 -> AnyIn(SummarizeWords, ql)
    [] k = 14 -> AnyIn(QuestionWords, ql)

Matching(ql) == {k \in 1..(NumRules - 1) : RuleHolds(k, ql)}

\* the lowest-numbered rule that holds; rule 15 when none does
FirstRule(ql) ==
  IF Matching(ql) = {} THEN NumRules
  ELSE CHOOSE k \in Matching(ql) : \A j \in Matching(ql) : k <= j

\* a call of analyze_user_intent on a str has completed
Classified ==
  /\ pc = "done"
  /\ call.op = "analyze_user_intent"
  /\ IsStr(call.user_query)

\* only read where Classified holds
QueryLower == lower(call.user_query.s)

\* C1: first match wins. The classifier returns the action of the
\* lowest-numbered rule whose keyword predicate holds on the lowercased query
\* (rule 15, ask_clarification, when none holds); never the action of a later rule.
C1_FirstMatchWins ==
  Classified =>
    /\ outcome.kind = "return"
    /\ outcome.value.action = RuleAction[FirstRule(QueryLower)]

\* two rules with different actions match, and the earlier one decided
C1_Witness ==
  /\ Classified
  /\ \E j, k \in Matching(QueryLower) :
       /\ j < k
       /\ RuleAction[j] # RuleAction[k]
       /\ \A i \in Matching(QueryLower) : j <= i
       /\ outcome.value.action = RuleAction[j]

\* C8: the classifier cannot fail. For every query string, the empty one
\* included, it returns an Intent: one action of ActionKind, a confidence in
\* [0,1] (0..10 tenths), a reasoning string, a parameters mapping and a boolean
\* requires_multiple_docs.
C8_ClassifierTotal ==
  Classified =>
    /\ outcome.kind = "return"
    /\ DOMAIN outcome.value =
         {"action", "confidence", "reasoning", "parameters", "requires_multiple_docs"}
    /\ outcome.value.action \in ActionKind
    /\ outcome.value.confidence \in 0..10
    /\ outcome.value.reasoning \in STRING
    /\ DOMAIN outcome.value.parameters \subseteq STRING
    /\ outcome.value.requires_multiple_docs \in BOOLEAN

\* the empty query has been classified
C8_Witness ==
  /\ Classified
  /\ call.user_query = Str(<<>>)
  /\ outcome.kind = "return"
  /\ outcome.value.action = "ask_clarification"

\* C9: ask_clarification, with confidence 0.3 and a non-empty suggestions list,
\* is returned exactly when the lowercased query contains no keyword of rules
\* 1-14; a query that matches a rule never gets ask_clarification.
C9_ClarificationIffNoKeyword ==
  Classified =>
    /\ outcome.kind = "return"
    /\ (outcome.value.action = "ask_clarification") <=> (Matching(QueryLower) = {})
    /\ outcome.value.action = "ask_clarification" =>
         /\ outcome.value.confidence = 3
         /\ "suggestions" \in DOMAIN outcome.value.parameters
         /\ Len(outcome.value.parameters.suggestions) > 0

\* classify("asdkjfh random text") has asked for clarification
C9_Witness ==
  /\ Classified
  /\ call.user_query = Str(RandomText)
  /\ outcome.value.action = "ask_clarification"
  /\ outcome.value.confidence = 3
  /\ Len(outcome.value.parameters.suggestions) = 10

WhoIsTheAuthor == <<"W","h","o"," ","i","s"," ","t","h","e"," ","a","u","t","h","o","r","?">>

\* C10: a query whose lowercased text contains "author" is never classified
\* as extract_entities, also when it contains "who" or a people term: it
\* yields answer_question; "Who is the author?" yields the question
\* "Who is the author of this document?" with confidence 0.9.
C10_AuthorNeverEntities ==
  (Classified /\ In(Author, QueryLower)) =>
    /\ outcome.kind = "return"
    /\ outcome.value.action = "answer_question"
    /\ call.user_query = Str(WhoIsTheAuthor) =>
         /\ outcome.value.parameters = [question |-> AuthorQuestion]
         /\ outcome.value.confidence = 9

\* a query with "author" and with "who" or a people term was answered as a question
C10_Witness ==
  /\ Classified
  /\ In(Author, QueryLower)
  /\ In(Who, QueryLower) \/ AnyIn(PeopleWords, QueryLower)
  /\ ~AnyIn(ConclusionWords, QueryLower)
  /\ outcome.value.action = "answer_question"
  /\ outcome.value.parameters = [question |-> AuthorQuestion]

----------------------------------------------------------------------------
(* The dispatcher and process_query *)

\* a call of execute_action has completed
Executed == pc = "done" /\ call.op = "execute_action"

\* a call of process_query has completed
Processed == pc = "done" /\ call.op = "process_query"

\* the completed call sent a prompt to the model
ModelInvoked == \E i \in DOMAIN events : events[i] = "_call_bedrock"

EnvelopeKeys ==
  {"user_query", "intent_analysis", "action_result", "agent_reasoning", "confidence"}

\* C2: if the backend call inside a handler raises, execute_action returns the
\* error result {error: "Error executing action <action>: <upstream text>"} with
\* no success content field, after a single attempt, and process_query still
\* returns a well-formed envelope without raising.
C2_ModelFailureIsErrorResult ==
  /\ (Executed /\ call.backend.mode = "raises" /\ ModelInvoked) =>
       /\ outcome.kind = "return"
       /\ outcome.value =
            [error |-> "Error executing action " \o call.action \o ": " \o call.backend.msg]
       /\ Cardinality({i \in DOMAIN events : events[i] = "_call_bedrock"}) = 1
  /\ (Processed /\ call.backend.mode = "raises" /\ ModelInvoked) =>
       /\ outcome.kind = "return"
       /\ DOMAIN outcome.value = EnvelopeKeys

\* the parameters as execute_action hands them to the handler
CallParameters == IF call.parameters = None THEN EmptyDict ELSE call.parameters

\* C3: execute_action never raises. When the handler it invokes raises, the
\* call returns the mapping whose only key is error, with the text
\* "Error executing action <action>: <message>".
C3_ExecuteActionNeverRaises ==
  Executed =>
    /\ outcome.kind = "return"
    /\ LET ran == Dispatch(call.action, call.document_content, CallParameters, call.backend)
       IN ran.outcome.kind = "raise" =>
            outcome.value =
              [error |-> "Error executing action " \o call.action \o ": " \o ran.outcome.msg]

\* summarize on a document that is None: len(content) raised inside the handler
C3_Witness ==
  /\ Executed
  /\ call.action = "summarize"
  /\ call.document_content = None
  /\ events = <<"execute_action", "_summarize_document">>
  /\ outcome =
       Return([error |-> "Error executing action summarize: object of type 'NoneType' has no len()"])

\* C4: an action name that is not registered gives {error: "Unknown action:
\* <name>"}; no handler runs, no model call is made, nothing is raised.
C4_UnknownActionResult ==
  (Executed /\ call.action \notin ActionKind) =>
    /\ outcome = Return([error |-> "Unknown action: " \o call.action])
    /\ events = <<"execute_action">>

C4_Witness ==
  /\ Executed
  /\ call.action = "bogus"
  /\ outcome = Return([error |-> "Unknown action: bogus"])
  /\ ~ModelInvoked

\* an exception is raised inside process_query's try block: len() of a
\* document that is None, a list as the key of the cache, or lower() of a
\* query that is None
RaisesInside ==
  \/ call.document_content = None
  \/ Stored(call.document_content, call.document_id) /\ call.document_id = UnhashableId
  \/ ~IsStr(call.user_query)

\* C5: process_query never raises. If an exception occurs while it caches,
\* classifies or dispatches, it returns the degraded envelope:
\* intent_analysis.action "error", confidence 0.0 at the top level and in
\* intent_analysis, and an action_result that carries an error string.
C5_ProcessQueryNeverRaises ==
  Processed =>
    /\ outcome.kind = "return"
    /\ DOMAIN outcome.value = EnvelopeKeys
    /\ RaisesInside =>
         /\ outcome.value.intent_analysis.action = "error"
         /\ outcome.value.intent_analysis.confidence = 0
         /\ outcome.value.confidence = 0
         /\ DOMAIN outcome.value.action_result = {"error"}
         /\ outcome.value.action_result.error \in STRING

\* the cache write raised (an unhashable document_id) and the caller got the envelope
C5_Witness ==
  /\ Processed
  /\ call.document_id = UnhashableId
  /\ IsStr(call.user_query)
  /\ Truthy(call.document_content)
  /\ outcome.kind = "return"
  /\ outcome.value.intent_analysis.action = "error"
  /\ outcome.value.action_result = [error |-> "Processing error: unhashable type: 'list'"]

\* the handler of each ActionKind
HandlerOf ==
  [a \in ActionKind |->
     CASE a = "summarize" -> "_summarize_document"
       [] a = "extract_entities" -> "_extract_entities"
       [] a = "answer_question" -> "_answer_question"
       [] a = "compare_documents" -> "_compare_documents"
       [] a = "translate" -> "_translate_document"
       [] a = "classify" -> "_classify_document"
       [] a = "extract_insights" -> "_extract_insights"
       [] a = "find_information" -> "_find_information"
       [] a = "analyze_sentiment" -> "_analyze_sentiment"
       [] a = "extract_action_items" -> "_extract_action_items"
       [] a = "ask_clarification" -> "_ask_clarification"]

Handlers == {HandlerOf[a] : a \in ActionKind}

HandlersRun == {i \in DOMAIN events : events[i] \in Handlers}

C7_TwoResultVariants ==
  Executed =>
    /\ outcome.kind = "return"
    /\ \/ /\ "action" \in DOMAIN outcome.value
          /\ outcome.value.action = call.action
          /\ "error" \notin DOMAIN outcome.value
       \/ DOMAIN outcome.value = {"error"}

\* entity extraction whose JSON parse failed: the error marker is nested under
\* entities, and the result is the success variant
C7_Witness ==
  /\ Executed
  /\ call.action = "extract_entities"
  /\ outcome.kind = "return"
  /\ DOMAIN outcome.value = {"action", "entities", "entity_types"}
  /\ "error" \in DOMAIN outcome.value.entities

----------------------------------------------------------------------------
(* Repeated classification *)

\* a classification has completed and the caller holds an earlier one
Reclassified ==
  /\ Classified
  /\ previous.call.op = "analyze_user_intent"

SameLowered ==
  /\ Reclassified
  /\ IsStr(previous.call.user_query)
  /\ lower(call.user_query.s) = lower(previous.call.user_query.s)

\* the rules that put user_query itself into the parameters: findings (3) and
\* the generic interrogative (14)
QuestionIsQuery == {3, 14}

\* C12 as stated: two queries whose lower-case forms are equal yield identical
\* Intents: action, confidence, reasoning, parameters and requires_multiple_docs.
C12_PureInLoweredQuery ==
  SameLowered => outcome = previous.outcome

\* C12, amended: two queries whose lower-case forms are equal yield Intents with
\* the same action, confidence, reasoning and requires_multiple_docs; their
\* parameters are identical too, except under the findings rule and the generic
\* interrogative rule, where parameters is {question: <the query as typed>}.
C12_PureUpToQuestion ==
  SameLowered =>
    /\ outcome.kind = "return" /\ previous.outcome.kind = "return"
    /\ outcome.value.action = previous.outcome.value.action
    /\ outcome.value.confidence = previous.outcome.value.confidence
    /\ outcome.value.reasoning = previous.outcome.value.reasoning
    /\ outcome.value.requires_multiple_docs = previous.outcome.value.requires_multiple_docs
    /\ IF FirstRule(QueryLower) \in QuestionIsQuery
       THEN /\ outcome.value.parameters = [question |-> call.user_query.s]
            /\ previous.outcome.value.parameters = [question |-> previous.call.user_query.s]
       ELSE outcome.value.parameters = previous.outcome.value.parameters

\* "WHAT" classified after "what": the same rule, two different questions
C12_Witness ==
  /\ SameLowered
  /\ call.user_query # previous.call.user_query
  /\ FirstRule(QueryLower) \in QuestionIsQuery
  /\ outcome.value.parameters # previous.outcome.value.parameters

----------------------------------------------------------------------------
(* The translation rule *)

\* the rule of the table, section 4.1, that is the translation rule
TranslationRule == CHOOSE k \in DOMAIN RuleAction : RuleAction[k] = "translate"

\* the language names in the order the specification gives them
LanguageOrder ==
  << [name |-> <<"f","r","e","n","c","h">>, language |-> "French"],
     [name |-> <<"g","e","r","m","a","n">>, language |-> "German"],
     [name |-> <<"c","h","i","n","e","s","e">>, language |-> "Chinese"],
     [name |-> <<"j","a","p","a","n","e","s","e">>, language |-> "Japanese"] >>

NamedLanguages(ql) == {i \in DOMAIN LanguageOrder : In(LanguageOrder[i].name, ql)}

\* the first language of LanguageOrder whose name ql contains; Spanish when none
FirstLanguage(ql) ==
  IF NamedLanguages(ql) = {} THEN "Spanish"
  ELSE LanguageOrder[CHOOSE i \in NamedLanguages(ql) :
                       \A j \in NamedLanguages(ql) : i <= j].language

\* C13: whenever the translation rule fires, the intent has action translate
\* and confidence 0.9, and target_language is the first of French, German,
\* Chinese, Japanese whose name the lowercased query contains, and Spanish when
\* it contains none of the four.
C13_TranslationTarget ==
  (Classified /\ FirstRule(QueryLower) = TranslationRule) =>
    /\ outcome.kind = "return"
    /\ outcome.value.action = "translate"
    /\ outcome.value.confidence = 9
    /\ outcome.value.parameters = [target_language |-> FirstLanguage(QueryLower)]

\* a query that names German before French is translated to French
C13_Witness ==
  /\ Classified
  /\ FirstRule(QueryLower) = TranslationRule
  /\ In(<<"g","e","r","m","a","n","f","r","e","n","c","h">>, QueryLower)
  /\ outcome.value.parameters.target_language = "French"

----------------------------------------------------------------------------
(* Model invocations *)

\* the number of prompts the completed call sent to the model
ModelCalls == Cardinality({i \in DOMAIN events : events[i] = "_call_bedrock"})

\* the completed call is execute_action with arguments of the declared types:
\* a str content and a dict (or the default None) for parameters
TypedDispatch ==
  /\ Executed
  /\ IsStr(call.document_content)
  /\ IsDict(CallParameters)

\* the completed call is process_query with arguments of the declared types:
\* a str query, a str content and a str (or the default None) for document_id
TypedRequest ==
  /\ Processed
  /\ IsStr(call.user_query)
  /\ IsStr(call.document_content)
  /\ (call.document_id = None \/ IsStr(call.document_id))

\* C14: in a single dispatch, on arguments of the declared types, the
\* ask_clarification handler performs zero model invocations and every other
\* registered handler performs exactly one, both when execute_action is
\* called directly and when process_query dispatches;
\* no call, whatever its arguments and whether the invocation succeeded or
\* failed, invokes the model a second time.
C14_OneInvocationPerHandler ==
  /\ (TypedDispatch /\ call.action \in ActionKind) =>
       ModelCalls = IF call.action = "ask_clarification" THEN 0 ELSE 1
  /\ TypedRequest =>
       ModelCalls = IF outcome.value.intent_analysis.action = "ask_clarification"
                    THEN 0 ELSE 1
  /\ (Executed \/ Processed) => ModelCalls <= 1

\* a handler whose only model call failed: one invocation, not repeated
C14_Witness ==
  /\ TypedDispatch
  /\ call.action \in ActionKind \ {"ask_clarification"}
  /\ call.backend.mode # "ok"
  /\ ModelCalls = 1

----------------------------------------------------------------------------
(* Entity extraction *)

\* the model answered the completed call with a text that json.loads rejects
AnsweredWithoutJson ==
  /\ ModelInvoked
  /\ call.backend.mode = "ok"
  /\ json_loads(call.backend.text).kind = "raise"

\* the result of entity extraction over a response that is no JSON
RawEntities(entity_types) ==
  [action |-> "extract_entities",
   entities |-> [raw_response |-> call.backend.text, error |-> "JSON parsing failed"],
   entity_types |-> entity_types]

\* C15: when the model's response to entity extraction is not valid JSON, the
\* handler does not fail: the result is the success mapping with action
\* extract_entities whose entities field is {raw_response: <the raw text>,
\* error: "JSON parsing failed"}; it has no top-level error key, and no
\* exception reaches the dispatcher or process_query.
C15_UnparsedEntitiesAreReturned ==
  /\ (Executed /\ call.action = "extract_entities" /\ AnsweredWithoutJson) =>
       /\ outcome =
            Return(RawEntities(Get(CallParameters, "entity_types",
                                   <<"PERSON", "ORGANIZATION", "DATE", "LOCATION">>)))
       /\ "error" \notin DOMAIN outcome.value
  /\ (Processed /\ AnsweredWithoutJson
        /\ outcome.value.intent_analysis.action = "extract_entities") =>
       /\ outcome.value.action_result =
            RawEntities(outcome.value.intent_analysis.parameters.entity_types)
       /\ "error" \notin DOMAIN outcome.value.action_result

\* the model answered entity extraction with a sentence
C15_Witness ==
  /\ Executed
  /\ call.action = "extract_entities"
  /\ AnsweredWithoutJson
  /\ outcome.value.entities.raw_response = "The document is a quarterly report."

----------------------------------------------------------------------------
(* The steps of process_query *)

\* the place of a step in the order: cache write, classification, dispatch,
\* handler, model invocation, envelope assembly
StepRank(step) ==
  CASE step = "cache" -> 1
    [] step = "analyze_user_intent" -> 2
    [] step = "execute_action" -> 3
    [] step \in Handlers -> 4
    [] step = "_call_bedrock" -> 5
    [] step \in {"envelope", "degraded"} -> 6

\* every step of the completed call comes before the steps of higher rank
\* only: the order is kept and no step is entered twice
StepsInOrder ==
  \A i, j \in DOMAIN events : i < j => StepRank(events[i]) < StepRank(events[j])

StepCount(step) == Cardinality({i \in DOMAIN events : events[i] = step})

\* the completed process_query returned the envelope of its except clause
Degraded == outcome.value.intent_analysis.action = "error"

\* C16: within one process_query call the steps happen strictly in the order
\* cache write, classification, dispatch, handler, model invocation, envelope
\* assembly, and no step is re-entered after a later one has started; on
\* arguments of the declared types classification and dispatch each happen
\* exactly once, and the envelope is assembled last.
C16_StepsInOrder ==
  /\ Processed => StepsInOrder
  /\ TypedRequest =>
       /\ StepCount("analyze_user_intent") = 1
       /\ StepCount("execute_action") = 1
       /\ events[Len(events)] = "envelope"

\* a call that performed all six steps
C16_Witness ==
  /\ TypedRequest
  /\ {StepRank(events[i]) : i \in DOMAIN events} = 1..6

----------------------------------------------------------------------------
(* The envelope *)

\* C17: in every non-degraded envelope returned by process_query, user_query
\* is the input query, intent_analysis is the classifier's Intent for that
\* query, confidence equals intent_analysis.confidence, agent_reasoning equals
\* intent_analysis.reasoning, and action_result is what execute_action returns
\* for intent_analysis.action with intent_analysis.parameters.
C17_EnvelopeFields ==
  (Processed /\ ~Degraded) =>
    /\ outcome.value.user_query = call.user_query
    /\ outcome.value.intent_analysis = analyze_user_intent(call.user_query).value
    /\ outcome.value.confidence = outcome.value.intent_analysis.confidence
    /\ outcome.value.agent_reasoning = outcome.value.intent_analysis.reasoning
    /\ outcome.value.action_result =
         execute_action(outcome.value.intent_analysis.action, call.document_content,
                        outcome.value.intent_analysis.parameters, call.backend).outcome.value

\* the envelope of a translation request
C17_Witness ==
  /\ Processed
  /\ ~Degraded
  /\ outcome.value.intent_analysis.action = "translate"
  /\ outcome.value.confidence = 9
  /\ "translation" \in DOMAIN outcome.value.action_result

\* the completed process_query dispatched, and execute_action returned an error result
DispatchFailed ==
  /\ Processed
  /\ StepCount("execute_action") = 1
  /\ "error" \in DOMAIN outcome.value.action_result

\* C18: a failure at the dispatcher does not change the envelope: when
\* execute_action returns an error result, the envelope has its five keys and
\* carries the classifier's action and confidence for the query. The intent
\* action "error" with confidence 0.0 occurs only when an exception was raised
\* in the try block itself, outside execute_action.
C18_DispatchFailureKeepsIntent ==
  /\ DispatchFailed =>
       /\ DOMAIN outcome.value = EnvelopeKeys
       /\ outcome.value.intent_analysis.action =
            analyze_user_intent(call.user_query).value.action
       /\ outcome.value.intent_analysis.action \in ActionKind
       /\ outcome.value.intent_analysis.confidence =
            analyze_user_intent(call.user_query).value.confidence
       /\ outcome.value.confidence = outcome.value.intent_analysis.confidence
       /\ outcome.value.confidence > 0
  /\ (Processed /\ (Degraded \/ outcome.value.intent_analysis.confidence = 0)) =>
       /\ Degraded
       /\ outcome.value.intent_analysis.confidence = 0
       /\ RaisesInside
       /\ StepCount("execute_action") = 0

\* a dict passed as the document: the summarize handler raised, execute_action
\* returned the error result, and the envelope still says summarize, 0.8
C18_Witness ==
  /\ DispatchFailed
  /\ outcome.value.intent_analysis.action = "summarize"
  /\ outcome.value.confidence = 8
  /\ outcome.value.action_result =
       [error |-> "Error executing action summarize: unhashable type: 'slice'"]

----------------------------------------------------------------------------
(* The document cache *)

\* this step is a call of process_query
ProcessQueryStep == pc' = "done" /\ call'.op = "process_query"

\* after the step the cache holds the call's content under the call's id
CachedByStep ==
  /\ call'.document_id \in DOMAIN document_memory'
  /\ document_memory'[call'.document_id] = call'.document_content

\* C19: process_query writes document_memory[document_id] = document_content
\* if and only if document_id and document_content are both non-empty (for a
\* document_id of the declared type: a str or None), and it touches no other
\* key; a write replaces what an earlier call cached under that id, so a key
\* maps to the content of the most recent call that cached it; no step of the
\* agent removes a key, and only process_query changes the cache.
C19_CacheWrites ==
  [][ /\ ProcessQueryStep =>
           /\ (call'.document_id = None \/ IsStr(call'.document_id)) =>
                (CachedByStep <=>
                   (Truthy(call'.document_id) /\ Truthy(call'.document_content)))
           /\ CachedByStep \/ document_memory' = document_memory
           /\ DOMAIN document_memory' \subseteq DOMAIN document_memory \cup {call'.document_id}
           /\ \A k \in DOMAIN document_memory \ {call'.document_id} :
                k \in DOMAIN document_memory' /\ document_memory'[k] = document_memory[k]
      /\ DOMAIN document_memory \subseteq DOMAIN document_memory'
      /\ ~ProcessQueryStep => document_memory' = document_memory ]_vars

\* the call's document is cached under its id, beside the entry of another id
\* that holds another content
C19_Witness ==
  /\ Processed
  /\ Cardinality(DOMAIN document_memory) = 2
  /\ call.document_id \in DOMAIN document_memory
  /\ document_memory[call.document_id] = call.document_content
  /\ \E k \in DOMAIN document_memory : document_memory[k] # call.document_content

----------------------------------------------------------------------------
(* Concurrent calls *)

OtherThread(t) == CHOOSE u \in Threads : u # t

\* thread t has passed the cache write of its call
PastCache(t) == threads[t].pc \in {"classify", "dispatch", "assemble", "returned"}

\* the other thread is outside process_query or uses another document_id
DistinctIds(t) ==
  \/ threads[OtherThread(t)].pc = "idle"
  \/ threads[OtherThread(t)].call.document_id # threads[t].call.document_id

\* C20: two concurrent process_query calls on one agent are independent. Under
\* every interleaving of their steps, with distinct non-empty document_ids,
\* the document of each call is in the cache from its write on, so both are
\* there when both calls have returned; and each call returns the envelope
\* that process_query returns for its arguments when it runs alone.
C20_ConcurrentCallsIndependent ==
  \A t \in Threads :
    /\ (PastCache(t) /\ DistinctIds(t)
          /\ Stored(threads[t].call.document_content, threads[t].call.document_id)) =>
         /\ threads[t].call.document_id \in DOMAIN document_memory
         /\ document_memory[threads[t].call.document_id] = threads[t].call.document_content
    /\ threads[t].pc = "returned" =>
         threads[t].envelope =
           process_query(threads[t].call.user_query, threads[t].call.document_content,
                         threads[t].call.document_id, EmptyDict,
                         threads[t].call.backend).outcome

\* both calls have returned, and the cache holds the two documents
C20_Witness ==
  /\ \A t \in Threads : threads[t].pc = "returned"
  /\ threads["t1"].call.document_id # threads["t2"].call.document_id
  /\ threads["t1"].call.document_content # threads["t2"].call.document_content
  /\ \A t \in Threads :
       document_memory[threads[t].call.document_id] = threads[t].call.document_content

----------------------------------------------------------------------------
(* The complexity estimator *)

\* a call of _analyze_query_complexity has completed
Estimated == pc = "done" /\ call.op = "_analyze_query_complexity"

\* the simple keywords as the specification lists them
ListedSimpleKeywords ==
  <<<<"s","u","m","m","a","r","i","z","e">>,
    <<"t","r","a","n","s","l","a","t","e">>,
    <<"c","l","a","s","s","i","f","y">>>>

\* C21 as stated: the estimator returns simple if and only if the lowercased
\* query contains one of summarize, translate, classify and the document is
\* shorter than 2000 characters; otherwise complex if and only if it contains
\* one of analyze, compare, insights, comprehensive, detailed or the document
\* is longer than 5000; otherwise moderate.
C21_ComplexityTiers ==
  Estimated =>
    outcome.value =
      IF AnyIn(ListedSimpleKeywords, lower(call.user_query.s))
           /\ Len(call.document_content.s) < 2000
      THEN "simple"
      ELSE IF AnyIn(ComplexKeywords, lower(call.user_query.s))
                \/ Len(call.document_content.s) > 5000
      THEN "complex"
      ELSE "moderate"

\* the simple keywords of the code: "summary" as well
AllSimpleKeywords == Append(ListedSimpleKeywords, <<"s","u","m","m","a","r","y">>)

\* C21, amended: the estimator returns simple if and only if the lowercased
\* query contains one of summarize, summary, translate, classify and the
\* document is shorter than 2000 characters; otherwise complex if and only if
\* it contains one of analyze, compare, insights, comprehensive, detailed or
\* the document is longer than 5000; otherwise moderate. The simple test is
\* evaluated first; lengths of exactly 2000 and 5000 satisfy neither length test.
C21_ComplexityTiersWithSummary ==
  Estimated =>
    outcome.value =
      IF (\E k \in DOMAIN AllSimpleKeywords :
            In(AllSimpleKeywords[k], lower(call.user_query.s)))
           /\ Len(call.document_content.s) < 2000
      THEN "simple"
      ELSE IF (\E k \in DOMAIN ComplexKeywords :
                 In(ComplexKeywords[k], lower(call.user_query.s)))
                \/ Len(call.document_content.s) > 5000
      THEN "complex"
      ELSE "moderate"

\* a short document and a query with a simple and a complex keyword: simple
C21_Witness ==
  /\ Estimated
  /\ In(<<"s","u","m","m","a","r","y">>, lower(call.user_query.s))
  /\ In(<<"a","n","a","l","y","z","e">>, lower(call.user_query.s))
  /\ Len(call.document_content.s) = 1999
  /\ outcome.value = "simple"

----------------------------------------------------------------------------
(* The crew pipeline *)

\* a call of the crew's process_query has completed
CrewProcessed == pc = "done" /\ call.op = "crew.process_query"

\* the tier the estimator gives for the completed call's arguments
EstimatedTier == _analyze_query_complexity(call.user_query, call.document_content)

TieredFamilies == {"summarization", "question_answering", "entity_extraction"}

\* C22: in the crew orchestrator the summarization, question-answering and
\* entity-extraction families run a single stage (one agent) exactly when the
\* estimated tier is simple, and two sequential stages, the analysis and then
\* the specialist's, for moderate and complex; the translation branch always
\* runs a single stage and reports complexity "simple" whatever the estimator
\* returned.
C22_StagesByTier ==
  /\ (CrewProcessed /\ outcome.value.crew_type \in TieredFamilies) =>
       /\ outcome.value.complexity = EstimatedTier
       /\ (Len(events) = 1) <=> (EstimatedTier = "simple")
       /\ EstimatedTier \in {"moderate", "complex"} =>
            /\ Len(events) = 2
            /\ events[1] = "analyzer"
            /\ events[2] # "analyzer"
       /\ Len(outcome.value.agents_used) = Len(events)
  /\ (CrewProcessed /\ outcome.value.crew_type = "translation") =>
       /\ events = <<"translator">>
       /\ Len(outcome.value.agents_used) = 1
       /\ outcome.value.complexity = "simple"

\* a translation request that the estimator rates complex, reported as simple
C22_Witness ==
  /\ CrewProcessed
  /\ outcome.value.crew_type = "translation"
  /\ EstimatedTier = "complex"
  /\ outcome.value.complexity = "simple"
  /\ Len(events) = 1

----------------------------------------------------------------------------
(* Truncation *)

\* one action has been dispatched on two documents
DispatchedTwice == pc = "done" /\ call.op = "execute_action twice"

ModelBacked == ActionKind \ {"ask_clarification"}

\* the threshold N of each model-backed handler
Threshold ==
  [a \in ModelBacked |->
     IF a \in {"summarize", "answer_question", "extract_insights", "find_information",
               "extract_action_items"} THEN 8000
     ELSE IF a \in {"extract_entities", "compare_documents", "translate",
                    "analyze_sentiment"} THEN 6000
     ELSE 4000]

\* the first n characters of text, all of it when it is shorter
Prefix(text, n) == [i \in 1..(IF Len(text) < n THEN Len(text) ELSE n) |-> text[i]]

\* C23: document content beyond the handler's threshold N is not considered.
\* For each model-backed handler (N = 8000 for summarize, answer_question,
\* extract_insights, find_information, extract_action_items; 6000 for
\* extract_entities, compare_documents, translate, analyze_sentiment; 4000 for
\* classify) the instruction embeds the first N characters of the document,
\* two documents that agree on their first N characters produce the identical
\* instruction, and N lies between 4000 and 8000.
C23_ContentBeyondThresholdIgnored ==
  (DispatchedTwice /\ call.action \in ModelBacked) =>
    /\ Threshold[call.action] \in 4000..8000
    /\ Len(outcome.prompts) = 1 /\ Len(outcome.other_prompts) = 1
    /\ outcome.prompts[1].document =
         Prefix(call.document_content.s, Threshold[call.action])
    /\ outcome.other_prompts[1].document =
         Prefix(call.other_content.s, Threshold[call.action])
    /\ (Prefix(call.document_content.s, Threshold[call.action])
          = Prefix(call.other_content.s, Threshold[call.action]))
         => outcome.prompts = outcome.other_prompts

\* two documents of 4001 characters that differ in the last one only, classified
\* with the same instruction
C23_Witness ==
  /\ DispatchedTwice
  /\ call.action = "classify"
  /\ Len(call.document_content.s) = 4001
  /\ Len(call.other_content.s) = 4001
  /\ call.document_content # call.other_content
  /\ outcome.prompts = outcome.other_prompts

----------------------------------------------------------------------------
(* The summarizer function *)

Summarized == pc = "done" /\ call.op = "summarizer.lambda_handler"

\* the event has a non-empty input text
HasInput == "input" \in DOMAIN call.event /\ call.event.input # Str(<<>>)

\* the event has both file_content and filename
HasFile ==
  /\ "file_content" \in DOMAIN call.event /\ call.event.file_content # Str(<<>>)
  /\ "filename" \in DOMAIN call.event /\ call.event.filename # Str(<<>>)

\* decoding the file or extracting its text fails
FileFails ==
  /\ HasFile
  /\ \/ b64decode(call.event.file_content.s).kind = "raise"
     \/ process_file(b64decode(call.event.file_content.s).value,
                     call.event.filename.s).kind = "raise"

\* the model cannot be reached
ModelFails == call.model.mode # "answers"

\* C24: the summarizer lambda_handler never raises and always returns a
\* statusCode in {200, 400, 500}: 400 when the event has neither a non-empty
\* input text nor both file_content and filename, 400 when file decoding or
\* extraction fails, 200 with summary, input_length and summary_length on
\* success, where input_length is the length of the whole text (also for a text
\* of 25,000 characters), and 500 for any other exception.
C24_SummarizerStatus ==
  Summarized =>
    /\ outcome.kind = "return"
    /\ outcome.value.statusCode \in {200, 400, 500}
    /\ (~HasInput /\ ~HasFile) => outcome.value.statusCode = 400
    /\ FileFails => outcome.value.statusCode = 400
    /\ (outcome.value.statusCode = 400) <=> (FileFails \/ (~HasInput /\ ~HasFile))
    /\ (outcome.value.statusCode = 500) <=>
         (ModelFails /\ ~FileFails /\ (HasInput \/ HasFile))
    /\ (outcome.value.statusCode = 200) =>
         /\ {"summary", "input_length", "summary_length"}
              \subseteq DOMAIN outcome.value.body.json
         /\ ~HasFile => outcome.value.body.json.input_length = Len(call.event.input.s)

\* the text of 25,000 characters is summarized whole
C24_Witness ==
  /\ Summarized
  /\ ~HasFile
  /\ HasInput
  /\ Len(call.event.input.s) = 25000
  /\ outcome.value.statusCode = 200
  /\ outcome.value.body.json.input_length = 25000

----------------------------------------------------------------------------
(* Confidence and text of the classifier's intents *)

\* the confidence of each rule, 1..15, in tenths
RuleConfidence == <<9, 9, 8, 8, 8, 8, 8, 9, 8, 8, 8, 7, 8, 7, 3>>

\* C25: the Intent's confidence and requires_multiple_docs are fixed by the rule
\* that fired: confidence is 0.9 for the conclusion, author and translation
\* rules, 0.7 for the comparison and generic-interrogative rules, 0.3 for no
\* match and 0.8 for every other rule; requires_multiple_docs is true if and
\* only if the action is compare_documents.
C25_ConfidenceByRule ==
  Classified =>
    /\ outcome.kind = "return"
    /\ outcome.value.confidence = RuleConfidence[FirstRule(QueryLower)]
    /\ FirstRule(QueryLower) \in {1, 2, 8} <=> outcome.value.confidence = 9
    /\ FirstRule(QueryLower) \in {12, 14} <=> outcome.value.confidence = 7
    /\ FirstRule(QueryLower) = NumRules <=> outcome.value.confidence = 3
    /\ outcome.value.requires_multiple_docs
         <=> outcome.value.action = "compare_documents"

\* "Extract action items" yields extract_action_items with 0.8
C25_Witness ==
  /\ Classified
  /\ call.user_query.s = <<"E","x","t","r","a","c","t"," ","a","c","t","i","o","n"," ",
                           "i","t","e","m","s">>
  /\ outcome.value.action = "extract_action_items"
  /\ outcome.value.confidence = 8
  /\ ~outcome.value.requires_multiple_docs

\* the intent of the completed call: the classifier's result, or the one in the
\* envelope of process_query
ReturnedIntent ==
  IF call.op = "process_query" THEN outcome.value.intent_analysis ELSE outcome.value

\* a call that classified a str query has completed and gave an intent
GaveIntent ==
  /\ pc = "done"
  /\ call.op \in {"analyze_user_intent", "process_query"}
  /\ IsStr(call.user_query)
  /\ outcome.kind = "return"
  /\ ReturnedIntent.action \in ActionKind

\* C26: lower-casing is used only for matching and is never persisted. The
\* findings rule and the generic-interrogative rule put the original,
\* unnormalised query text into parameters.question, the conclusion and author
\* rules put a fixed synthesized question there, and the envelope's user_query
\* is the original query unchanged.
C26_LoweringNotPersisted ==
  /\ GaveIntent =>
       /\ FirstRule(QueryLower) \in {3, 14}
            => ReturnedIntent.parameters.question = call.user_query.s
       /\ FirstRule(QueryLower) = 1
            => ReturnedIntent.parameters.question = ConclusionQuestion
       /\ FirstRule(QueryLower) = 2
            => ReturnedIntent.parameters.question = AuthorQuestion
  /\ Processed => outcome.kind = "return" /\ outcome.value.user_query = call.user_query

\* a query with capitals, decided by the generic-interrogative rule, comes back
\* as it was written, in the question and in the envelope
C26_Witness ==
  /\ Processed
  /\ GaveIntent
  /\ FirstRule(QueryLower) = 14
  /\ call.user_query.s # QueryLower
  /\ ReturnedIntent.parameters.question = call.user_query.s
  /\ outcome.value.user_query = call.user_query

\* the keyword lists of the second block, lines 209-289, in source order
SecondBlock ==
  <<ActionItemWords2, EntityWords2, TranslateWords2, ClassifyWords2, InsightWords2,
    SentimentWords2, CompareWords2, SummarizeWords2>>

\* the second block's tests that hold on the lowercased query
SecondBlockMatching(ql) == {k \in DOMAIN SecondBlock : AnyIn(SecondBlock[k], ql)}

\* C27: the second block of classifier branches (the repeated action-item,
\* who/person, translate, classify, insight, sentiment, compare and summarize
\* tests after the generic-interrogative rule) is unreachable for every query:
\* whenever one of its tests holds, one of the rules 1..14 holds too.
\* Consequently translate is never returned with confidence 0.8, none of
\* extract_action_items, extract_entities, classify, extract_insights and
\* analyze_sentiment is ever returned with confidence 0.7, and the classifier
\* never returns find_information.
C27_SecondBlockUnreachable ==
  Classified =>
    /\ SecondBlockMatching(QueryLower) # {} => FirstRule(QueryLower) < NumRules
    /\ ~(outcome.value.action = "translate" /\ outcome.value.confidence = 8)
    /\ ~(/\ outcome.value.action \in {"extract_action_items", "extract_entities",
                                       "classify", "extract_insights",
                                       "analyze_sentiment"}
         /\ outcome.value.confidence = 7)
    /\ outcome.value.action # "find_information"

\* a query that holds the second block's who/person test while the people, who
\* and organization rules do not hold: the author rule has decided it
C27_Witness ==
  /\ Classified
  /\ 2 \in SecondBlockMatching(QueryLower)
  /\ ~RuleHolds(4, QueryLower) /\ ~RuleHolds(5, QueryLower) /\ ~RuleHolds(6, QueryLower)
  /\ FirstRule(QueryLower) = 2
  /\ outcome.value.action = "answer_question"
  /\ outcome.value.confidence = 9

\* C28: every example query in the suggestions list returned with
\* ask_clarification is itself understood by the classifier: classifying any of
\* the ten suggestions yields an action other than ask_clarification, so
\* following a suggestion never leads back to another clarification request.
C28_SuggestionsAreUnderstood ==
  GaveIntent =>
    /\ call.user_query.s \in Range(Suggestions)
         => ReturnedIntent.action # "ask_clarification"
    /\ ReturnedIntent.action = "ask_clarification" =>
         /\ Len(ReturnedIntent.parameters.suggestions) = 10
         /\ \A k \in DOMAIN ReturnedIntent.parameters.suggestions :
              LET followed == analyze_user_intent(
                                Str(ReturnedIntent.parameters.suggestions[k]))
              IN /\ followed.kind = "return"
                 /\ followed.value.action \in ActionKind \ {"ask_clarification"}

\* the last suggestion has been followed and was understood
C28_Witness ==
  /\ GaveIntent
  /\ call.user_query.s = Suggestions[10]
  /\ ReturnedIntent.action = "analyze_sentiment"

----------------------------------------------------------------------------
(* The document intelligence function *)

\* a call of the document intelligence lambda_handler has completed
Handled == pc = "done" /\ call.op = "lambda_handler"

\* process_query was called, and returned as it always does
QueryProcessed == \E i \in DOMAIN events : events[i] = "process_query"

\* the fields the handler looks for, in order
ResponseFields ==
  <<"result", "answer", "insights", "classification", "translation",
    "sentiment_analysis", "action_items", "entities", "analysis">>

Present(action_result) == {k \in DOMAIN ResponseFields : ResponseFields[k] \in DOMAIN action_result}

\* the document the handler gave to process_query
HandledDocument ==
  IF events[1] = "b64decode"
  THEN Str(process_file(b64decode(call.event.file_content.s).value,
                        call.event.filename.s).value.text)
  ELSE call.event.input

\* the envelope process_query gave the handler
HandledEnvelope ==
  process_query(Get(call.event, "user_query", Str(Suggestions[8])), HandledDocument,
                IF Truthy(call.event.filename) THEN call.event.filename
                ELSE Str(<<"t","e","x","t","_","i","n","p","u","t">>),
                EmptyDict, call.backend).outcome.value

\* what the handler answers after process_query, as the claim has it
AnswersFrom(envelope, present) ==
  /\ outcome.kind = "return"
  /\ outcome.value.statusCode = 200
  /\ DOMAIN outcome.value.body.json =
       {"agent_response", "source", "user_query", "agent_action",
        "confidence", "reasoning", "input_length"}
  /\ present # {} =>
       outcome.value.body.json.agent_response =
         envelope.action_result[
           ResponseFields[CHOOSE k \in present : \A j \in present : k <= j]]
  /\ present = {} => outcome.value.body.json.agent_response = "No response generated"
  /\ outcome.value.body.json.agent_action = "ask_clarification" =>
       /\ "message" \in DOMAIN envelope.action_result
       /\ outcome.value.body.json.agent_response = "No response generated"
  /\ (/\ outcome.value.body.json.agent_action \in ActionKind
      /\ "error" \in DOMAIN envelope.action_result) =>
       /\ outcome.value.body.json.agent_response = "No response generated"
       /\ outcome.value.body.json.reasoning = envelope.intent_analysis.reasoning

\* C29 as stated: the document-intelligence lambda_handler answers 200 whenever
\* process_query returns, and takes its agent_response from the first present
\* field among result, answer, insights, classification, translation,
\* sentiment_analysis, action_items, entities, analysis; hence for an
\* ask_clarification intent (field message) and for a dispatcher error result
\* (field error) the agent_response is the literal "No response generated" with
\* statusCode 200, and neither the clarification message nor the error text
\* reaches the caller.
C29_AgentResponse ==
  (Handled /\ QueryProcessed) =>
    \A envelope \in {HandledEnvelope} :
      \A present \in {Present(envelope.action_result)} : AnswersFrom(envelope, present)

\* the document given to process_query has a length
Sized == len(HandledDocument).kind = "return"

\* C29, amended: the document-intelligence lambda_handler answers 200 whenever
\* process_query returns and the document has a length, and 500 when it has
\* none (an input that is a number); with 200 it takes its agent_response from
\* the first present field among result, answer, insights, classification,
\* translation, sentiment_analysis, action_items, entities, analysis, so that
\* for an ask_clarification intent and for a dispatcher error result the
\* agent_response is the literal "No response generated", and neither the
\* clarification message nor the error text reaches the caller.
C29_AgentResponseWhenSized ==
  (Handled /\ QueryProcessed) =>
    /\ outcome.kind = "return"
    /\ ~Sized => outcome.value.statusCode = 500
    /\ Sized =>
         \A envelope \in {HandledEnvelope} :
           \A present \in {Present(envelope.action_result)} : AnswersFrom(envelope, present)

\* the dispatcher's error result is answered with 200 and the literal
C29_Witness ==
  /\ Handled
  /\ QueryProcessed
  /\ outcome.value.statusCode = 200
  /\ outcome.value.body.json.agent_action = "summarize"
  /\ "error" \in DOMAIN HandledEnvelope.action_result
  /\ outcome.value.body.json.agent_response = "No response generated"

----------------------------------------------------------------------------
(* The HTTP service *)

ServiceCalled == pc = "done" /\ call.op = "process_document_service"

ProcessPosted == pc = "done" /\ call.op = "/api/process"

UploadPosted == pc = "done" /\ call.op = "/api/upload"

HasText(input_text) == input_text # None /\ input_text # Str(<<>>)

HasBytes(file_content) == file_content # None /\ file_content.size > 0

HasName(filename) == filename # None /\ filename # Str(<<>>)

\* the status codes of the validation failures a request has
Failures(input_text, file_content, filename, user_query) ==
  (IF user_query = Str(<<>>) THEN {400} ELSE {})
  \cup (IF ~HasText(input_text) /\ ~(HasBytes(file_content) /\ HasName(filename))
        THEN {400} ELSE {})
  \cup (IF HasText(input_text) /\ Len(input_text.s) > 10000 THEN {413} ELSE {})
  \cup (IF HasBytes(file_content) /\ file_content.size > 10 * 1024 * 1024
        THEN {413} ELSE {})

CrewInvoked == \E i \in DOMAIN events : events[i] = "crew.process_query"

\* the file of a posted request
PostedFile ==
  IF call.request.file_content = None \/ call.request.file_content = Str(<<>>) THEN None
  ELSE decode_file(call.request.file_content.s).value

\* the request passed the request model and its file could be decoded
Served ==
  /\ call.components = "ready"
  /\ Len(call.request.user_query.s) \in 1..1000
  /\ \/ call.request.file_content = None
     \/ decode_file(call.request.file_content.s).kind = "return"

\* C30: request-validation failures in process_document_service (missing
\* user_query, no input text and no file, no processable content: 400; text
\* longer than 10000 characters or file larger than 10MB: 413) keep their status
\* code through the /api/process endpoint, whereas the /api/upload endpoint
\* reports every failure, including those validation failures, as status 500;
\* neither endpoint invokes the crew agent after a validation failure.
C30_ValidationStatus ==
  /\ (ServiceCalled /\ call.components = "ready") =>
       \A failures \in {Failures(call.input_text, call.file_content, call.filename,
                                 call.user_query)} :
         /\ failures # {} =>
              /\ outcome.kind = "raise"
              /\ outcome.exc = "HTTPException"
              /\ outcome.status_code \in failures
         /\ (outcome.kind = "raise") => (outcome.status_code \in {400, 413} /\ ~CrewInvoked)
  /\ (ProcessPosted /\ Served) =>
       \A failures \in {Failures(call.request.input_text, PostedFile,
                                 call.request.filename, call.request.user_query)} :
         /\ failures # {} => outcome.value.status_code \in failures
         /\ outcome.value.status_code # 200 => ~CrewInvoked
         /\ \A served \in {process_document_service(
                             call.request.input_text, PostedFile, call.request.filename,
                             call.request.user_query, call.components, call.llm)} :
              served.outcome.kind = "raise" =>
                outcome.value.status_code = served.outcome.status_code
  /\ UploadPosted =>
       \A failures \in {Failures(None, call.file.content, call.file.filename, call.query)} :
         /\ outcome.kind = "return"
         /\ outcome.value.status_code \in {200, 500}
         /\ failures # {} => outcome.value.status_code = 500
         /\ outcome.value.status_code # 200 => ~CrewInvoked

\* a file of more than 10MB is uploaded with a query: the service's 413 is
\* reported as 500
C30_Witness ==
  /\ UploadPosted
  /\ call.components = "ready"
  /\ call.query # Str(<<>>)
  /\ HasName(call.file.filename)
  /\ call.file.content.size > 10 * 1024 * 1024
  /\ outcome.value.status_code = 500
  /\ ~CrewInvoked

====
